---------------------------- MODULE Spec2Model ----------------------------
(***************************************************************************)
(* Verification model of the OS visualisation platform core                *)
(* (src/core): the counting Semaphore, the DiningPhilosophers simulation   *)
(* built on it, the SharedBuffer producer/consumer engine, the             *)
(* ProcessManager state machine with its threads, the CPU Scheduler, the   *)
(* MemoryAllocator and the PageReplacer.                                   *)
(*                                                                         *)
(* Each engine has its own group of variables and its own specification    *)
(* (SpecSem, SpecDP, SpecIPC, SpecBuffer, SpecPM, SpecPMThreads,           *)
(* SpecSched, SpecAlloc, SpecPager); a specification leaves the other      *)
(* engines in their constructed state.  SpecBuffer is a SharedBuffer       *)
(* called directly by threads; SpecIPC is the buffer driven by Producer    *)
(* and Consumer threads under an IPCManager.  SpecPM is the process        *)
(* operations alone, SpecPMThreads adds the thread operations.             *)
(*                                                                         *)
(* Scheduler: times are integers (arrival >= 0, burst >= 1, quantum >= 1), *)
(* pids are distinct, and the process list is built before the scheduling  *)
(* calls or rebuilt after clear_processes.  MemoryAllocator: request sizes *)
(* are positive.  PageReplacer: frame_count >= 1 and page ids >= 0.        *)
(*                                                                         *)
(* Not modelled: logging and UI callbacks, sleep durations (a sleep is a   *)
(* step that may be taken at any time), IPCManager.reset, and a second     *)
(* DiningPhilosophers.start() after stop().                                *)
(*                                                                         *)
(* Threads: one TLA+ action is one critical section (a stretch of code     *)
(* executed under the object's lock) or one access to a shared flag.       *)
(* threading.Condition is modelled as CPython implements it: wait()        *)
(* appends the caller to the condition's waiter deque and releases the     *)
(* lock; notify(n) takes the first n waiters off the deque; a notified     *)
(* thread resumes in a later step, once it has the lock again.             *)
(***************************************************************************)
EXTENDS Integers, Sequences, FiniteSets, TLC

\* ------------------------------------------------------------------ bounds
NumSemThreads == 3      \* threads calling P/V on the stand-alone semaphore
MaxSemInit == 2         \* largest initial value of the stand-alone semaphore
MaxSemValue == 3        \* V() is not called above this counter value
MaxTid == 2             \* create_thread is not called beyond this thread id
MaxPid == 3             \* create_process is not called beyond this pid
NumPhil == 3            \* DiningPhilosophers.num_philosophers of the modelled table
Capacity == 2           \* SharedBuffer.capacity of the modelled buffer
MaxProducers == 1       \* add_producer is not called beyond this producer id
MaxConsumers == 2       \* add_consumer is not called beyond this consumer id
MaxItems == 3           \* produce is not called beyond this item id
NumBufThreads == 3      \* threads calling produce/consume on a SharedBuffer directly
MaxProcs == 3           \* add_process is not called on a Scheduler holding this many
MaxArrival == 2         \* largest arrival_time given to add_process
MaxBurst == 3           \* largest burst_time given to add_process
MaxPriority == 2        \* largest priority given to add_process
MaxQuantum == 2         \* largest time_slice given to round_robin
TicksPerUnit == 2       \* ticks per time unit where times are fractional
TotalSize == 5          \* MemoryAllocator.total_size of the modelled allocator
MaxRequest == 3         \* largest MemoryRequest.size given to allocate
MaxHistory == 5         \* no call that appends to a full allocation_history
MaxFrames == 2          \* largest PageReplacer.frame_count
MaxPage == 2            \* largest page id given to access_page and run_sequence
MaxAccesses == 4        \* access_page is not called after this many accesses
MaxSeqLen == 4          \* longest page sequence given to run_sequence
MaxPrior == 2           \* run_sequence is not called after more accesses than this
MaxFuture == 2          \* longest future_access list given to access_page

VARIABLES
    \* ---- stand-alone Semaphore (src/core/synchronization.py:32-112)
    sem,                \* the Semaphore object
    sem_pc,             \* per thread: "idle" | "waiting" (inside P, blocked)
    sem_ret,            \* per thread: outcome of its last P() call
    sem_hist,           \* history: phase of the run and the P() calls of the first phase
    sem_forced,         \* history: the threads whose current or last blocked P() was
                        \* waiting when force_wakeup_all() was called
    \* ---- ProcessManager (src/core/process.py:59-252)
    processes,          \* pid -> state of the process, "none" when pid is not in the dict
    ready_queue,        \* list of pids
    blocked_queue,      \* list of pids
    running_process,    \* pid, 0 for None
    next_pid,           \* _next_pid
    pm_last,            \* history: the last call on a process, [op, pid, ok]
    threads,            \* tid -> [pid, state] of the thread, state "none" when tid is not in the dict
    proc_threads,       \* pid -> Process.threads, the list of the process's tids
    next_tid,           \* _next_tid
    \* ---- DiningPhilosophers (src/core/synchronization.py:115-414)
    forks,              \* fork index -> Semaphore
    philosophers,       \* the manager's list of philosophers (their ids)
    dp_running,         \* DiningPhilosophers._running
    use_deadlock_prevention,
    mgr_pc,             \* where the controlling thread is: "idle", or inside stop()
    ph_pc,              \* per philosopher thread: its position in run()
    ph_state,           \* Philosopher.state
    ph_running,         \* Philosopher._running
    ph_paused,          \* Philosopher._paused
    left_fork,          \* Philosopher.left_fork (a fork index)
    right_fork,         \* Philosopher.right_fork
    pickup_delay,       \* Philosopher.pickup_delay > 0 (and initial_delay drawn)
    \* ---- SharedBuffer, Producer, Consumer, IPCManager (src/core/ipc.py)
    buffer,             \* SharedBuffer.buffer: list of items [id, producer]
    item_id,            \* SharedBuffer._item_id
    not_full,           \* SharedBuffer._not_full: [waiters, notified], producers
    not_empty,          \* SharedBuffer._not_empty: [waiters, notified], consumers
    producers,          \* IPCManager.producers (list of producer ids)
    consumers,          \* IPCManager.consumers (list of consumer ids)
    ipc_running,        \* IPCManager._running
    next_producer_id,
    next_consumer_id,
    ipc_pc,             \* where the controlling thread is: "idle", or inside stop()
    start_raised,       \* a Thread.start() inside IPCManager.start raised RuntimeError
    prod_pc,            \* per producer thread: its position in run()
    prod_running,       \* Producer._running
    prod_paused,        \* Producer._paused
    cons_pc,            \* per consumer thread: its position in run()
    cons_running,       \* Consumer._running
    cons_paused,        \* Consumer._paused
    consumed,           \* history: the items consume() returned since the last
                        \* clear(), in order, each with the thread it was returned to
    buf_pc,             \* per direct caller of a SharedBuffer: "idle", or waiting
                        \* inside produce ("pwait") or consume ("cwait")
    \* ---- Scheduler (src/core/scheduler.py)
    sch_processes,      \* Scheduler.processes: list of ScheduleProcess records
    gantt_chart,        \* Scheduler.gantt_chart: list of GanttBlock records
    current_time,       \* Scheduler.current_time
    time_slice,         \* Scheduler.time_slice
    sch_last,           \* history: the last scheduling call, "none" before the first
    sch_ret,            \* history: the process list the last scheduling call returned
    \* ---- MemoryAllocator (src/core/memory.py:65-217)
    blocks,             \* MemoryAllocator.blocks: list of MemoryBlock records
    allocation_history, \* list of <<operation, process name, success>>
    next_fit_pointer,   \* index (from 0) into blocks
    mem_ret,            \* history: what the last allocate/deallocate returned
    next_fit_block,     \* history: start of the block that the last successful
                        \* next-fit allocation made, -1 if none or freed since
    \* ---- PageReplacer (src/core/memory.py:220-413)
    frame_count,
    frames,             \* list of PageFrame records; frame_id is the position - 1
    page_faults,
    page_hits,
    access_history,     \* list of <<page, hit, replaced page>>
    fifo_queue,         \* list of page ids
    lru_order,          \* list of page ids
    clock_pointer,      \* index (from 0) into frames
    reference_bits,     \* dict page -> bit, as the set of its <<page, bit>> items
    pr_call,            \* history: the last call, [op, alg, arg], and for
                        \* run_sequence the number of accesses made before it
    pr_ret,             \* history: what the last access_page returned or raised
    pr_steps,           \* history: the list the last run_sequence returned
    pr_algs             \* history: the algorithms of the accesses since the last reset

semVars == <<sem, sem_pc, sem_ret, sem_hist, sem_forced>>
pmThreadVars == <<threads, proc_threads, next_tid>>
pmVars == <<processes, ready_queue, blocked_queue, running_process, next_pid, pm_last,
            pmThreadVars>>

dpVars == <<forks, philosophers, dp_running, use_deadlock_prevention,
            mgr_pc, ph_pc, ph_state, ph_running, ph_paused,
            left_fork, right_fork, pickup_delay>>

ipcVars == <<buffer, item_id, not_full, not_empty, producers, consumers, ipc_running,
             next_producer_id, next_consumer_id, ipc_pc, start_raised,
             prod_pc, prod_running, prod_paused, cons_pc, cons_running, cons_paused,
             consumed, buf_pc>>

schedVars == <<sch_processes, gantt_chart, current_time, time_slice, sch_last, sch_ret>>

allocVars == <<blocks, allocation_history, next_fit_pointer, mem_ret, next_fit_block>>

replacerVars == <<frame_count, frames, page_faults, page_hits, access_history,
                  fifo_queue, lru_order, clock_pointer, reference_bits>>

pagerVars == <<replacerVars, pr_call, pr_ret, pr_steps, pr_algs>>

memoryVars == <<allocVars, pagerVars>>

vars == <<semVars, pmVars, dpVars, ipcVars, schedVars, memoryVars>>

\* what the actions of one engine leave alone: the other engines
SemFrame == UNCHANGED <<pmVars, dpVars, ipcVars, schedVars, memoryVars>>
PMFrame == UNCHANGED <<semVars, dpVars, ipcVars, schedVars, memoryVars>>
DPFrame == UNCHANGED <<semVars, pmVars, ipcVars, schedVars, memoryVars>>
IPCFrame == UNCHANGED <<semVars, pmVars, dpVars, buf_pc, schedVars, memoryVars>>
SchedFrame == UNCHANGED <<semVars, pmVars, dpVars, ipcVars, memoryVars>>
AllocFrame == UNCHANGED <<semVars, pmVars, dpVars, ipcVars, schedVars, pagerVars>>
PagerFrame == UNCHANGED <<semVars, pmVars, dpVars, ipcVars, schedVars, allocVars>>

\* ----------------------------------------------------------------- helpers
Max(a, b) == IF a >= b THEN a ELSE b
Min(a, b) == IF a <= b THEN a ELSE b

Range(s) == {s[i] : i \in 1..Len(s)}

\* list.remove(x): drops the first occurrence of x
RECURSIVE RemoveFirst(_, _)
RemoveFirst(s, x) ==
    IF s = <<>> THEN <<>>
    ELSE IF Head(s) = x THEN Tail(s)
    ELSE <<Head(s)>> \o RemoveFirst(Tail(s), x)

\* threading.Condition.notify(n): the first n waiters of the deque are woken
MutNotifyLast(waiters, n) ==
    LET k == Min(n, Len(waiters))
    IN  {waiters[i] : i \in (Len(waiters) - k + 1)..Len(waiters)}
NotifyPick(waiters, n) ==
    {waiters[i] : i \in 1..Min(n, Len(waiters))}

CondNotify(s, n) ==
    LET woken == NotifyPick(s.waiters, n)
    IN  [s EXCEPT !.waiters = SelectSeq(s.waiters, LAMBDA w : w \notin woken),
                  !.notified = s.notified \cup woken]

\* ------------------------------------------------------------- Semaphore
\* Semaphore.__init__
NewSemaphore(v) ==
    [value |-> v, initial |-> v, waiting_queue |-> <<>>,
     waiters |-> <<>>, notified |-> {}, force_wakeup |-> FALSE]

\* Semaphore.P up to the return or the wait(): decrement, and block when negative
SemPEnter(s, name) ==
    IF s.value - 1 < 0
    THEN [s EXCEPT !.value = s.value - 1,
                   !.waiting_queue = Append(s.waiting_queue, name),
                   !.waiters = Append(s.waiters, name)]
    ELSE [s EXCEPT !.value = s.value - 1]

SemPBlocks(s) == s.value - 1 < 0

\* Semaphore.P after wait() returns: the result of the call
SemPResult(s, name) ==
    ~ (name \in Range(s.waiting_queue) /\ s.force_wakeup)

\* Semaphore.P after wait() returns: the semaphore it leaves
SemPResume(s, name) ==
    LET t == [s EXCEPT !.notified = s.notified \ {name}]
    IN  IF name \in Range(s.waiting_queue)
        THEN IF s.force_wakeup
             THEN [t EXCEPT !.waiting_queue = RemoveFirst(s.waiting_queue, name),
                            !.value = s.value + 1]
             ELSE [t EXCEPT !.waiting_queue = RemoveFirst(s.waiting_queue, name)]
        ELSE t

\* Semaphore.V
SemV(s) ==
    LET t == [s EXCEPT !.value = s.value + 1]
    IN  IF t.value <= 0 THEN CondNotify(t, 1) ELSE t

\* Semaphore.force_wakeup_all
SemForceWakeupAll(s) ==
    CondNotify([s EXCEPT !.force_wakeup = TRUE], Len(s.waiters))

\* Semaphore.reset
SemReset(s) ==
    [s EXCEPT !.value = s.initial, !.waiting_queue = <<>>, !.force_wakeup = FALSE]

\* --------------------------------------------------------- ProcessManager
Pids == 1..MaxPid
Tids == 1..MaxTid
None == 0

\* ProcessManager.VALID_TRANSITIONS
VALID_TRANSITIONS ==
    {<<"CREATED", "READY">>, <<"CREATED", "TERMINATED">>,
     <<"READY", "RUNNING">>, <<"READY", "TERMINATED">>,
     <<"RUNNING", "READY">>, <<"RUNNING", "BLOCKED">>, <<"RUNNING", "TERMINATED">>,
     <<"BLOCKED", "READY">>, <<"BLOCKED", "TERMINATED">>}

\* the manager's data as one value: the operations below map it to its successor
PMState == [processes |-> processes, ready_queue |-> ready_queue,
            blocked_queue |-> blocked_queue, running_process |-> running_process]

\* ProcessManager._can_transition
MutCanTransitionAnyKnown(st, pid, new_state) ==
    pid \in Pids /\ st.processes[pid] # "none"
_can_transition(st, pid, new_state) ==
    /\ pid \in Pids
    /\ st.processes[pid] # "none"
    /\ <<st.processes[pid], new_state>> \in VALID_TRANSITIONS

\* ProcessManager.ready, after the transition check
ReadyBody(st, pid) ==
    [st EXCEPT
        !.blocked_queue = IF pid \in Range(st.blocked_queue)
                          THEN RemoveFirst(st.blocked_queue, pid) ELSE @,
        !.running_process = IF st.running_process = pid THEN None ELSE @,
        !.processes = [@ EXCEPT ![pid] = "READY"],
        !.ready_queue = IF pid \notin Range(st.ready_queue)
                        THEN Append(st.ready_queue, pid) ELSE @]

\* ProcessManager.ready
PMReady(st, pid) ==
    IF _can_transition(st, pid, "READY") THEN ReadyBody(st, pid) ELSE st

\* ProcessManager.run, after the transition check
MutRunBodyNoDisplace(st, pid) ==
    [st EXCEPT
        !.ready_queue = IF pid \in Range(st.ready_queue)
                        THEN RemoveFirst(st.ready_queue, pid) ELSE @,
        !.processes = [@ EXCEPT ![pid] = "RUNNING"],
        !.running_process = pid]
RunBody(st, pid) ==
    LET d == IF st.running_process # None /\ st.running_process # pid
             THEN PMReady(st, st.running_process)
             ELSE st
    IN  [d EXCEPT
            !.ready_queue = IF pid \in Range(d.ready_queue)
                            THEN RemoveFirst(d.ready_queue, pid) ELSE @,
            !.processes = [@ EXCEPT ![pid] = "RUNNING"],
            !.running_process = pid]

\* ProcessManager.block, after the transition check
BlockBody(st, pid) ==
    [st EXCEPT
        !.running_process = IF st.running_process = pid THEN None ELSE @,
        !.processes = [@ EXCEPT ![pid] = "BLOCKED"],
        !.blocked_queue = IF pid \notin Range(st.blocked_queue)
                          THEN Append(st.blocked_queue, pid) ELSE @]

\* ProcessManager.terminate: its own check, not _can_transition
TerminateOk(st, pid) ==
    /\ pid \in Pids
    /\ st.processes[pid] # "none"
    /\ st.processes[pid] # "TERMINATED"

TerminateBody(st, pid) ==
    [st EXCEPT
        !.ready_queue = IF pid \in Range(st.ready_queue)
                        THEN RemoveFirst(st.ready_queue, pid) ELSE @,
        !.blocked_queue = IF pid \in Range(st.blocked_queue)
                          THEN RemoveFirst(st.blocked_queue, pid) ELSE @,
        !.running_process = IF st.running_process = pid THEN None ELSE @,
        !.processes = [@ EXCEPT ![pid] = "TERMINATED"]]

PMTerminate(st, pid) ==
    IF TerminateOk(st, pid) THEN TerminateBody(st, pid) ELSE st

\* ProcessManager.delete_process, for a pid of the dict
DeleteBody(st, pid) ==
    LET t == PMTerminate(st, pid)
    IN  [t EXCEPT !.processes = [@ EXCEPT ![pid] = "none"]]

PMSet(st, op, pid, ok) ==
    /\ processes' = st.processes
    /\ ready_queue' = st.ready_queue
    /\ blocked_queue' = st.blocked_queue
    /\ running_process' = st.running_process
    /\ pm_last' = [op |-> op, pid |-> pid, ok |-> ok]

InitPM ==
    /\ processes = [p \in Pids |-> "none"]
    /\ ready_queue = <<>>
    /\ blocked_queue = <<>>
    /\ running_process = None
    /\ next_pid = 1
    /\ pm_last = [op |-> "init", pid |-> None, ok |-> TRUE]
    /\ threads = [t \in Tids |-> [pid |-> None, state |-> "none"]]
    /\ proc_threads = [p \in Pids |-> <<>>]
    /\ next_tid = 1

create_process ==
    /\ next_pid <= MaxPid
    /\ PMSet([PMState EXCEPT !.processes = [@ EXCEPT ![next_pid] = "CREATED"]],
             "create_process", next_pid, TRUE)
    /\ next_pid' = next_pid + 1
    /\ UNCHANGED pmThreadVars
    /\ PMFrame

ready(pid) ==
    /\ IF _can_transition(PMState, pid, "READY")
       THEN PMSet(ReadyBody(PMState, pid), "ready", pid, TRUE)
       ELSE PMSet(PMState, "ready", pid, FALSE)
    /\ UNCHANGED <<next_pid, pmThreadVars>>
    /\ PMFrame

run(pid) ==
    /\ IF _can_transition(PMState, pid, "RUNNING")
       THEN PMSet(RunBody(PMState, pid), "run", pid, TRUE)
       ELSE PMSet(PMState, "run", pid, FALSE)
    /\ UNCHANGED <<next_pid, pmThreadVars>>
    /\ PMFrame

block(pid) ==
    /\ IF _can_transition(PMState, pid, "BLOCKED")
       THEN PMSet(BlockBody(PMState, pid), "block", pid, TRUE)
       ELSE PMSet(PMState, "block", pid, FALSE)
    /\ UNCHANGED <<next_pid, pmThreadVars>>
    /\ PMFrame

terminate(pid) ==
    /\ IF TerminateOk(PMState, pid)
       THEN PMSet(TerminateBody(PMState, pid), "terminate", pid, TRUE)
       ELSE PMSet(PMState, "terminate", pid, FALSE)
    /\ UNCHANGED <<next_pid, pmThreadVars>>
    /\ PMFrame

\* the Process object leaves the dict and its thread list goes with it; the
\* manager's thread dict is not touched
delete_process(pid) ==
    /\ IF processes[pid] # "none"
       THEN /\ PMSet(DeleteBody(PMState, pid), "delete_process", pid, TRUE)
            /\ proc_threads' = [proc_threads EXCEPT ![pid] = <<>>]
       ELSE /\ PMSet(PMState, "delete_process", pid, FALSE)
            /\ UNCHANGED proc_threads
    /\ UNCHANGED <<next_pid, threads, next_tid>>
    /\ PMFrame

\* ---- threads of the ProcessManager
\* ProcessManager.THREAD_VALID_TRANSITIONS
THREAD_VALID_TRANSITIONS ==
    {<<"CREATED", "READY">>, <<"CREATED", "TERMINATED">>,
     <<"READY", "RUNNING">>, <<"READY", "TERMINATED">>,
     <<"RUNNING", "READY">>, <<"RUNNING", "BLOCKED">>, <<"RUNNING", "TERMINATED">>,
     <<"BLOCKED", "READY">>, <<"BLOCKED", "TERMINATED">>}

\* what the thread operations never write
pmProcVars == <<processes, ready_queue, blocked_queue, running_process, next_pid>>

\* ProcessManager.create_thread
create_thread(pid) ==
    /\ next_tid <= MaxTid
    /\ IF processes[pid] # "none" /\ processes[pid] # "TERMINATED"
       THEN /\ threads' = [threads EXCEPT ![next_tid] = [pid |-> pid, state |-> "CREATED"]]
            /\ proc_threads' = [proc_threads EXCEPT ![pid] = Append(@, next_tid)]
            /\ next_tid' = next_tid + 1
       ELSE UNCHANGED pmThreadVars
    /\ UNCHANGED <<pmProcVars, pm_last>>
    /\ PMFrame

\* ProcessManager._can_thread_transition
_can_thread_transition(tid, new_state) ==
    /\ threads[tid].state # "none"
    /\ <<threads[tid].state, new_state>> \in THREAD_VALID_TRANSITIONS

\* thread_ready, thread_run and thread_block differ in the target state only
ThreadTransition(tid, new_state) ==
    /\ IF _can_thread_transition(tid, new_state)
       THEN /\ threads' = [threads EXCEPT ![tid].state = new_state]
       ELSE UNCHANGED threads
    /\ UNCHANGED <<proc_threads, next_tid, pmProcVars, pm_last>>

\* ProcessManager.thread_ready
thread_ready(tid) ==
    /\ ThreadTransition(tid, "READY")
    /\ PMFrame

\* ProcessManager.thread_run
thread_run(tid) ==
    /\ ThreadTransition(tid, "RUNNING")
    /\ PMFrame

\* ProcessManager.thread_block
thread_block(tid) ==
    /\ ThreadTransition(tid, "BLOCKED")
    /\ PMFrame

\* ProcessManager.thread_terminate: its own check, not _can_thread_transition
thread_terminate(tid) ==
    /\ IF threads[tid].state \notin {"none", "TERMINATED"}
       THEN /\ threads' = [threads EXCEPT ![tid].state = "TERMINATED"]
       ELSE UNCHANGED threads
    /\ UNCHANGED <<proc_threads, next_tid, pmProcVars, pm_last>>
    /\ PMFrame

\* ProcessManager.delete_thread: the tid leaves its process's list (when the
\* process is still in the dict), the thread is terminated and leaves the dict
delete_thread(tid) ==
    /\ IF threads[tid].state # "none"
       THEN /\ proc_threads' =
                  IF processes[threads[tid].pid] # "none"
                        /\ tid \in Range(proc_threads[threads[tid].pid])
                  THEN [proc_threads EXCEPT ![threads[tid].pid] = RemoveFirst(@, tid)]
                  ELSE proc_threads
            /\ threads' = [threads EXCEPT ![tid] = [pid |-> None, state |-> "none"]]
       ELSE UNCHANGED <<threads, proc_threads>>
    /\ UNCHANGED <<next_tid, pmProcVars, pm_last>>
    /\ PMFrame

\* ----------------------------------------------------- DiningPhilosophers
Phil == 0..(NumPhil - 1)
Forks == 0..(NumPhil - 1)

\* DiningPhilosophers.start: the forks philosopher i is given
LeftForkOf(i, prevention) ==
    IF prevention /\ i = NumPhil - 1 THEN (i + 1) % NumPhil ELSE i
RightForkOf(i, prevention) ==
    IF prevention /\ i = NumPhil - 1 THEN i ELSE (i + 1) % NumPhil

\* DiningPhilosophers.check_deadlock
MutCheckDeadlockSign ==
    /\ dp_running
    /\ philosophers # {}
    /\ \A p \in philosophers : ph_state[p] = "HUNGRY"
    /\ \A f \in Forks : forks[f].value > 0
check_deadlock ==
    /\ dp_running
    /\ philosophers # {}
    /\ \A p \in philosophers : ph_state[p] = "HUNGRY"
    /\ \A f \in Forks : forks[f].value <= 0

\* DiningPhilosophers.__init__ / _init_resources
InitDP ==
    /\ forks = [f \in Forks |-> NewSemaphore(1)]
    /\ philosophers = {}
    /\ dp_running = FALSE
    /\ use_deadlock_prevention = TRUE
    /\ mgr_pc = "idle"
    /\ ph_pc = [i \in Phil |-> "none"]
    /\ ph_state = [i \in Phil |-> "THINKING"]
    /\ ph_running = [i \in Phil |-> FALSE]
    /\ ph_paused = [i \in Phil |-> FALSE]
    /\ left_fork = [i \in Phil |-> LeftForkOf(i, TRUE)]
    /\ right_fork = [i \in Phil |-> RightForkOf(i, TRUE)]
    /\ pickup_delay = [i \in Phil |-> FALSE]

\* a philosopher thread exists and has not finished run()
Alive(i) == ph_pc[i] \notin {"none", "done"}

\* ---- the controlling thread: the manager's commands, one at a time
\* (the flag is read by start() alone: the model takes the command before it)
set_deadlock_prevention(enabled) ==
    /\ mgr_pc = "idle"
    /\ philosophers = {}
    /\ \A i \in Phil : ph_pc[i] = "none"
    /\ use_deadlock_prevention' = enabled
    /\ UNCHANGED <<forks, philosophers, dp_running, mgr_pc, ph_pc,
                   ph_state, ph_running, ph_paused, left_fork, right_fork, pickup_delay>>
    /\ DPFrame

\* DiningPhilosophers.start. A philosopher thread is identified by its seat:
\* the model follows one table, from its start() through its stop().
start ==
    /\ mgr_pc = "idle"
    /\ ~ dp_running
    /\ \A i \in Phil : ph_pc[i] = "none"
    /\ dp_running' = TRUE
    /\ philosophers' = Phil
    /\ left_fork' = [i \in Phil |-> LeftForkOf(i, use_deadlock_prevention)]
    /\ right_fork' = [i \in Phil |-> RightForkOf(i, use_deadlock_prevention)]
    /\ pickup_delay' = [i \in Phil |-> ~ use_deadlock_prevention]
    /\ ph_pc' = [i \in Phil |-> "new"]
    /\ ph_state' = [i \in Phil |-> "THINKING"]
    /\ ph_running' = [i \in Phil |-> FALSE]
    /\ ph_paused' = [i \in Phil |-> FALSE]
    /\ UNCHANGED <<forks, use_deadlock_prevention, mgr_pc>>
    /\ DPFrame

\* DiningPhilosophers.pause
pause ==
    /\ mgr_pc = "idle"
    /\ ph_paused' = [i \in Phil |-> IF i \in philosophers THEN TRUE ELSE ph_paused[i]]
    /\ UNCHANGED <<forks, philosophers, dp_running, use_deadlock_prevention, mgr_pc,
                   ph_pc, ph_state, ph_running, left_fork, right_fork, pickup_delay>>
    /\ DPFrame

\* DiningPhilosophers.resume
resume ==
    /\ mgr_pc = "idle"
    /\ ph_paused' = [i \in Phil |-> IF i \in philosophers THEN FALSE ELSE ph_paused[i]]
    /\ UNCHANGED <<forks, philosophers, dp_running, use_deadlock_prevention, mgr_pc,
                   ph_pc, ph_state, ph_running, left_fork, right_fork, pickup_delay>>
    /\ DPFrame

\* DiningPhilosophers.stop, first loop: the flags, and Philosopher.stop of each
StopFlagsOf(i) == IF i \in philosophers THEN FALSE ELSE ph_running[i]
StopFlags ==
    /\ mgr_pc = "idle"
    /\ dp_running' = FALSE
    /\ ph_running' = [i \in Phil |-> StopFlagsOf(i)]
    /\ ph_paused' = [i \in Phil |-> IF i \in philosophers THEN FALSE ELSE ph_paused[i]]
    /\ mgr_pc' = "force"
    /\ UNCHANGED <<forks, philosophers, use_deadlock_prevention,
                   ph_pc, ph_state, left_fork, right_fork, pickup_delay>>
    /\ DPFrame

\* DiningPhilosophers.stop, second loop: force_wakeup_all of every fork
StopForce ==
    /\ mgr_pc = "force"
    /\ forks' = [f \in Forks |-> SemForceWakeupAll(forks[f])]
    /\ mgr_pc' = "join"
    /\ UNCHANGED <<philosophers, dp_running, use_deadlock_prevention,
                   ph_pc, ph_state, ph_running, ph_paused, left_fork, right_fork,
                   pickup_delay>>
    /\ DPFrame

\* DiningPhilosophers.stop, third loop, join(timeout=1.0) of each live thread:
\* it ends when the threads have ended or the timeouts have run out, whichever
\* the scheduling brings, so the model puts no condition on it. Then the
\* fourth loop, reset of every fork, and the list is emptied.
StopReset ==
    /\ mgr_pc = "join"
    /\ forks' = [f \in Forks |-> SemReset(forks[f])]
    /\ mgr_pc' = "idle"
    /\ philosophers' = {}
    /\ UNCHANGED <<dp_running, use_deadlock_prevention, ph_pc, ph_state, ph_running,
                   ph_paused, left_fork, right_fork, pickup_delay>>
    /\ DPFrame

\* ---- Philosopher.run, one thread per seat
\* what a philosopher thread never writes
dpFixed == <<philosophers, dp_running, use_deadlock_prevention, mgr_pc,
             ph_paused, left_fork, right_fork, pickup_delay>>

\* Philosopher._check_pause returns: not (paused and running)
PausePassed(i) == ~ (ph_paused[i] /\ ph_running[i])

Goto(i, l) == ph_pc' = [ph_pc EXCEPT ![i] = l]

\* run(): self._running = True, then the initial delay if one was drawn
RunSetsRunning(i) == [ph_running EXCEPT ![i] = TRUE]
PhBegin(i) ==
    /\ ph_pc[i] = "new"
    /\ ph_running' = RunSetsRunning(i)
    /\ IF pickup_delay[i]
       THEN \E l \in {"idelay", "top"} : Goto(i, l)
       ELSE Goto(i, "top")
    /\ UNCHANGED <<forks, ph_state, dpFixed>>
    /\ DPFrame

\* the initial delay ends (elapsed, or cut short); "if not self._running: return"
PhInitialDelay(i) ==
    /\ ph_pc[i] = "idelay"
    /\ Goto(i, IF ph_running[i] THEN "top" ELSE "done")
    /\ UNCHANGED <<forks, ph_state, ph_running, dpFixed>>
    /\ DPFrame

\* top of the loop: while-test, _check_pause, "if not running: break",
\* set_state(THINKING)
PhTop(i) ==
    /\ ph_pc[i] = "top"
    /\ PausePassed(i)
    /\ IF ph_running[i]
       THEN Goto(i, "think") /\ ph_state' = [ph_state EXCEPT ![i] = "THINKING"]
       ELSE Goto(i, "done") /\ UNCHANGED ph_state
    /\ UNCHANGED <<forks, ph_running, dpFixed>>
    /\ DPFrame

\* thinking ends; _check_pause; "if not running: break"; set_state(HUNGRY)
PhThink(i) ==
    /\ ph_pc[i] = "think"
    /\ PausePassed(i)
    /\ IF ph_running[i]
       THEN Goto(i, "pL") /\ ph_state' = [ph_state EXCEPT ![i] = "HUNGRY"]
       ELSE Goto(i, "done") /\ UNCHANGED ph_state
    /\ UNCHANGED <<forks, ph_running, dpFixed>>
    /\ DPFrame

\* left_fork.P(name), up to its return or its wait()
PhPLeft(i) ==
    /\ ph_pc[i] = "pL"
    /\ forks' = [forks EXCEPT ![left_fork[i]] = SemPEnter(forks[left_fork[i]], i)]
    /\ Goto(i, IF SemPBlocks(forks[left_fork[i]]) THEN "waitL" ELSE "gotL")
    /\ UNCHANGED <<ph_state, ph_running, dpFixed>>
    /\ DPFrame

\* left_fork.P(name) after the wait(): granted, or cancelled ("break")
PhResumeLeft(i) ==
    /\ ph_pc[i] = "waitL"
    /\ i \in forks[left_fork[i]].notified
    /\ forks' = [forks EXCEPT ![left_fork[i]] = SemPResume(forks[left_fork[i]], i)]
    /\ Goto(i, IF SemPResult(forks[left_fork[i]], i) THEN "gotL" ELSE "done")
    /\ UNCHANGED <<ph_state, ph_running, dpFixed>>
    /\ DPFrame

\* holding the left fork: _check_pause; "if not running: V(left); break";
\* then the pickup delay if there is one
PhGotLeft(i) ==
    /\ ph_pc[i] = "gotL"
    /\ PausePassed(i)
    /\ Goto(i, IF ~ ph_running[i] THEN "xL"
               ELSE IF pickup_delay[i] THEN "delayL" ELSE "pR")
    /\ UNCHANGED <<forks, ph_state, ph_running, dpFixed>>
    /\ DPFrame

\* the pickup delay ends; "if not running: V(left); break"
PhPickupDelay(i) ==
    /\ ph_pc[i] = "delayL"
    /\ Goto(i, IF ph_running[i] THEN "pR" ELSE "xL")
    /\ UNCHANGED <<forks, ph_state, ph_running, dpFixed>>
    /\ DPFrame

\* right_fork.P(name), up to its return or its wait()
PhPRight(i) ==
    /\ ph_pc[i] = "pR"
    /\ forks' = [forks EXCEPT ![right_fork[i]] = SemPEnter(forks[right_fork[i]], i)]
    /\ Goto(i, IF SemPBlocks(forks[right_fork[i]]) THEN "waitR" ELSE "gotR")
    /\ UNCHANGED <<ph_state, ph_running, dpFixed>>
    /\ DPFrame

\* right_fork.P(name) after the wait(): granted, or cancelled ("V(left); break")
PhResumeRight(i) ==
    /\ ph_pc[i] = "waitR"
    /\ i \in forks[right_fork[i]].notified
    /\ forks' = [forks EXCEPT ![right_fork[i]] = SemPResume(forks[right_fork[i]], i)]
    /\ Goto(i, IF SemPResult(forks[right_fork[i]], i) THEN "gotR" ELSE "xL")
    /\ UNCHANGED <<ph_state, ph_running, dpFixed>>
    /\ DPFrame

\* holding both forks: _check_pause; "if not running: V(right); V(left); break";
\* set_state(EATING)
PhGotRight(i) ==
    /\ ph_pc[i] = "gotR"
    /\ PausePassed(i)
    /\ IF ph_running[i]
       THEN Goto(i, "eat") /\ ph_state' = [ph_state EXCEPT ![i] = "EATING"]
       ELSE Goto(i, "xR") /\ UNCHANGED ph_state
    /\ UNCHANGED <<forks, ph_running, dpFixed>>
    /\ DPFrame

\* eating ends; "if not running:" puts the forks down and breaks, else the forks
\* are put down and the loop goes on
PhEat(i) ==
    /\ ph_pc[i] = "eat"
    /\ Goto(i, IF ph_running[i] THEN "vR" ELSE "xR")
    /\ UNCHANGED <<forks, ph_state, ph_running, dpFixed>>
    /\ DPFrame

\* right_fork.V(name), in the loop ("vR") or on the way out ("xR")
PhVRight(i) ==
    /\ ph_pc[i] \in {"vR", "xR"}
    /\ forks' = [forks EXCEPT ![right_fork[i]] = SemV(forks[right_fork[i]])]
    /\ Goto(i, IF ph_pc[i] = "vR" THEN "vL" ELSE "xL")
    /\ UNCHANGED <<ph_state, ph_running, dpFixed>>
    /\ DPFrame

\* left_fork.V(name), in the loop ("vL") or on the way out ("xL")
PhVLeft(i) ==
    /\ ph_pc[i] \in {"vL", "xL"}
    /\ forks' = [forks EXCEPT ![left_fork[i]] = SemV(forks[left_fork[i]])]
    /\ Goto(i, IF ph_pc[i] = "vL" THEN "top" ELSE "done")
    /\ UNCHANGED <<ph_state, ph_running, dpFixed>>
    /\ DPFrame

PhStep(i) ==
    \/ PhBegin(i)
    \/ PhInitialDelay(i)
    \/ PhTop(i)
    \/ PhThink(i)
    \/ PhPLeft(i)
    \/ PhResumeLeft(i)
    \/ PhGotLeft(i)
    \/ PhPickupDelay(i)
    \/ PhPRight(i)
    \/ PhResumeRight(i)
    \/ PhGotRight(i)
    \/ PhEat(i)
    \/ PhVRight(i)
    \/ PhVLeft(i)

NextDP ==
    \/ \E b \in BOOLEAN : set_deadlock_prevention(b)
    \/ start
    \/ pause
    \/ resume
    \/ StopFlags
    \/ StopForce
    \/ StopReset
    \/ \E i \in Phil : PhBegin(i)
    \/ \E i \in Phil : PhInitialDelay(i)
    \/ \E i \in Phil : PhTop(i)
    \/ \E i \in Phil : PhThink(i)
    \/ \E i \in Phil : PhPLeft(i)
    \/ \E i \in Phil : PhResumeLeft(i)
    \/ \E i \in Phil : PhGotLeft(i)
    \/ \E i \in Phil : PhPickupDelay(i)
    \/ \E i \in Phil : PhPRight(i)
    \/ \E i \in Phil : PhResumeRight(i)
    \/ \E i \in Phil : PhGotRight(i)
    \/ \E i \in Phil : PhEat(i)
    \/ \E i \in Phil : PhVRight(i)
    \/ \E i \in Phil : PhVLeft(i)

\* ------------------------------------------------------------ SharedBuffer
ProducerIds == 1..MaxProducers
BufThreads == 1..NumBufThreads
ConsumerIds == 1..MaxConsumers

\* threading.Condition(self._lock)
NewCondition == [waiters |-> <<>>, notified |-> {}]

\* Condition.wait(), up to the release of the lock
CondWait(c, who) == [c EXCEPT !.waiters = Append(c.waiters, who)]

\* a notified thread has the lock again
CondResumed(c, who) == [c EXCEPT !.notified = c.notified \ {who}]

\* SharedBuffer.produce: "while len(self.buffer) >= self.capacity"
MutBufferFullOffByOne(buf) == Len(buf) > Capacity
BufferFull(buf) == Len(buf) >= Capacity

\* SharedBuffer.consume: "while len(self.buffer) == 0"
BufferEmpty(buf) == Len(buf) = 0

\* SharedBuffer.consume: "item = self.buffer.pop(0)"
MutPopLast(buf) == [item |-> buf[Len(buf)], rest |-> SubSeq(buf, 1, Len(buf) - 1)]
PopFirst(buf) == [item |-> Head(buf), rest |-> Tail(buf)]

\* SharedBuffer.__init__ and IPCManager.__init__
InitIPC ==
    /\ buffer = <<>>
    /\ item_id = 0
    /\ not_full = NewCondition
    /\ not_empty = NewCondition
    /\ producers = <<>>
    /\ consumers = <<>>
    /\ ipc_running = FALSE
    /\ next_producer_id = 1
    /\ next_consumer_id = 1
    /\ ipc_pc = "idle"
    /\ start_raised = FALSE
    /\ prod_pc = [p \in ProducerIds |-> "absent"]
    /\ prod_running = [p \in ProducerIds |-> FALSE]
    /\ prod_paused = [p \in ProducerIds |-> FALSE]
    /\ cons_pc = [c \in ConsumerIds |-> "absent"]
    /\ cons_running = [c \in ConsumerIds |-> FALSE]
    /\ cons_paused = [c \in ConsumerIds |-> FALSE]
    /\ consumed = <<>>
    /\ buf_pc = [t \in BufThreads |-> "idle"]

\* what the worker threads never write
ipcFixed == <<producers, consumers, ipc_running, next_producer_id, next_consumer_id,
              ipc_pc, start_raised, prod_paused, cons_paused>>

\* SharedBuffer.produce once the buffer is not full: the item is appended and
\* one waiting consumer notified
ProduceItem(p) ==
    /\ item_id' = item_id + 1
    /\ buffer' = Append(buffer, [id |-> item_id + 1, producer |-> p])
    /\ not_empty' = CondNotify(not_empty, 1)

\* SharedBuffer.consume once the buffer is not empty: the first item is popped
\* and one waiting producer notified
ConsumeItem(c) ==
    /\ buffer' = PopFirst(buffer).rest
    /\ consumed' = Append(consumed, [id |-> PopFirst(buffer).item.id,
                                     producer |-> PopFirst(buffer).item.producer,
                                     consumer |-> c])
    /\ not_full' = CondNotify(not_full, 1)

\* ---- Producer.run
\* run(): self._running = True
ProdBegin(p) ==
    /\ prod_pc[p] = "new"
    /\ prod_running' = [prod_running EXCEPT ![p] = TRUE]
    /\ prod_pc' = [prod_pc EXCEPT ![p] = "top"]
    /\ UNCHANGED <<buffer, item_id, not_full, not_empty, cons_pc, cons_running, consumed,
                   ipcFixed>>
    /\ IPCFrame

\* (the sleep of the last round is over;) while-test, pause wait,
\* "if not self._running: break"
ProdTop(p) ==
    /\ prod_pc[p] = "top"
    /\ ~ (prod_paused[p] /\ prod_running[p])
    /\ prod_pc' = [prod_pc EXCEPT ![p] = IF prod_running[p] THEN "produce" ELSE "done"]
    /\ UNCHANGED <<buffer, item_id, not_full, not_empty, prod_running, cons_pc,
                   cons_running, consumed, ipcFixed>>
    /\ IPCFrame

\* buffer.produce(value, name): under the lock, wait() when full, else produce
ProdProduce(p) ==
    /\ prod_pc[p] = "produce"
    /\ item_id < MaxItems
    /\ IF BufferFull(buffer)
       THEN /\ not_full' = CondWait(not_full, p)
            /\ prod_pc' = [prod_pc EXCEPT ![p] = "pwait"]
            /\ UNCHANGED <<buffer, item_id, not_empty>>
       ELSE /\ ProduceItem(p)
            /\ prod_pc' = [prod_pc EXCEPT ![p] = "top"]
            /\ UNCHANGED not_full
    /\ UNCHANGED <<prod_running, cons_pc, cons_running, consumed, ipcFixed>>
    /\ IPCFrame

\* buffer.produce after wait() returns: the while-test again
ProdResume(p) ==
    /\ prod_pc[p] = "pwait"
    /\ p \in not_full.notified
    /\ IF BufferFull(buffer)
       THEN /\ not_full' = CondWait(CondResumed(not_full, p), p)
            /\ UNCHANGED <<buffer, item_id, not_empty, prod_pc>>
       ELSE /\ ProduceItem(p)
            /\ not_full' = CondResumed(not_full, p)
            /\ prod_pc' = [prod_pc EXCEPT ![p] = "top"]
    /\ UNCHANGED <<prod_running, cons_pc, cons_running, consumed, ipcFixed>>
    /\ IPCFrame

\* ---- Consumer.run
ConsBegin(c) ==
    /\ cons_pc[c] = "new"
    /\ cons_running' = [cons_running EXCEPT ![c] = TRUE]
    /\ cons_pc' = [cons_pc EXCEPT ![c] = "top"]
    /\ UNCHANGED <<buffer, item_id, not_full, not_empty, prod_pc, prod_running, consumed,
                   ipcFixed>>
    /\ IPCFrame

ConsTop(c) ==
    /\ cons_pc[c] = "top"
    /\ ~ (cons_paused[c] /\ cons_running[c])
    /\ cons_pc' = [cons_pc EXCEPT ![c] = IF cons_running[c] THEN "consume" ELSE "done"]
    /\ UNCHANGED <<buffer, item_id, not_full, not_empty, prod_pc, prod_running,
                   cons_running, consumed, ipcFixed>>
    /\ IPCFrame

\* buffer.consume(name): under the lock, wait() when empty, else consume
ConsConsume(c) ==
    /\ cons_pc[c] = "consume"
    /\ IF BufferEmpty(buffer)
       THEN /\ not_empty' = CondWait(not_empty, c)
            /\ cons_pc' = [cons_pc EXCEPT ![c] = "cwait"]
            /\ UNCHANGED <<buffer, consumed, not_full>>
       ELSE /\ ConsumeItem(c)
            /\ cons_pc' = [cons_pc EXCEPT ![c] = "top"]
            /\ UNCHANGED not_empty
    /\ UNCHANGED <<item_id, prod_pc, prod_running, cons_running, ipcFixed>>
    /\ IPCFrame

\* buffer.consume after wait() returns: the while-test again
ConsResume(c) ==
    /\ cons_pc[c] = "cwait"
    /\ c \in not_empty.notified
    /\ IF BufferEmpty(buffer)
       THEN /\ not_empty' = CondWait(CondResumed(not_empty, c), c)
            /\ UNCHANGED <<buffer, consumed, not_full, cons_pc>>
       ELSE /\ ConsumeItem(c)
            /\ not_empty' = CondResumed(not_empty, c)
            /\ cons_pc' = [cons_pc EXCEPT ![c] = "top"]
    /\ UNCHANGED <<item_id, prod_pc, prod_running, cons_running, ipcFixed>>
    /\ IPCFrame

\* --------------------------------------- SharedBuffer called directly
\* what a direct caller of the buffer never touches
ipcManaged == <<producers, consumers, ipc_running, next_producer_id, next_consumer_id,
                ipc_pc, start_raised, prod_pc, prod_running, prod_paused,
                cons_pc, cons_running, cons_paused>>

BufFrame == UNCHANGED <<semVars, pmVars, dpVars, ipcManaged, schedVars, memoryVars>>

\* a thread calls SharedBuffer.produce
BufProduce(t) ==
    /\ buf_pc[t] = "idle"
    /\ item_id < MaxItems
    /\ IF BufferFull(buffer)
       THEN /\ not_full' = CondWait(not_full, t)
            /\ buf_pc' = [buf_pc EXCEPT ![t] = "pwait"]
            /\ UNCHANGED <<buffer, item_id, not_empty>>
       ELSE /\ ProduceItem(t)
            /\ UNCHANGED <<not_full, buf_pc>>
    /\ UNCHANGED consumed
    /\ BufFrame

\* its wait() inside produce returns
BufProduceResume(t) ==
    /\ buf_pc[t] = "pwait"
    /\ t \in not_full.notified
    /\ IF BufferFull(buffer)
       THEN /\ not_full' = CondWait(CondResumed(not_full, t), t)
            /\ UNCHANGED <<buffer, item_id, not_empty, buf_pc>>
       ELSE /\ ProduceItem(t)
            /\ not_full' = CondResumed(not_full, t)
            /\ buf_pc' = [buf_pc EXCEPT ![t] = "idle"]
    /\ UNCHANGED consumed
    /\ BufFrame

\* a thread calls SharedBuffer.consume
BufConsume(t) ==
    /\ buf_pc[t] = "idle"
    /\ IF BufferEmpty(buffer)
       THEN /\ not_empty' = CondWait(not_empty, t)
            /\ buf_pc' = [buf_pc EXCEPT ![t] = "cwait"]
            /\ UNCHANGED <<buffer, consumed, not_full>>
       ELSE /\ ConsumeItem(t)
            /\ UNCHANGED <<not_empty, buf_pc>>
    /\ UNCHANGED item_id
    /\ BufFrame

\* its wait() inside consume returns
BufConsumeResume(t) ==
    /\ buf_pc[t] = "cwait"
    /\ t \in not_empty.notified
    /\ IF BufferEmpty(buffer)
       THEN /\ not_empty' = CondWait(CondResumed(not_empty, t), t)
            /\ UNCHANGED <<buffer, consumed, not_full, buf_pc>>
       ELSE /\ ConsumeItem(t)
            /\ not_empty' = CondResumed(not_empty, t)
            /\ buf_pc' = [buf_pc EXCEPT ![t] = "idle"]
    /\ UNCHANGED item_id
    /\ BufFrame

\* SharedBuffer.clear
clear ==
    /\ buffer' = <<>>
    /\ item_id' = 0
    /\ consumed' = <<>>
    /\ UNCHANGED <<not_full, not_empty, buf_pc>>
    /\ BufFrame

NextBuffer ==
    \/ \E t \in BufThreads : BufProduce(t)
    \/ \E t \in BufThreads : BufProduceResume(t)
    \/ \E t \in BufThreads : BufConsume(t)
    \/ \E t \in BufThreads : BufConsumeResume(t)
    \/ clear

\* ------------------------------------------------------------ IPCManager
\* what the controlling thread never writes
ipcData == <<buffer, item_id, consumed>>

\* threading.Thread.is_alive(): started and not finished
ThreadAlive(pc) == pc \notin {"absent", "created", "done"}

\* IPCManager.add_producer
add_producer ==
    /\ ipc_pc = "idle"
    /\ next_producer_id <= MaxProducers
    /\ producers' = Append(producers, next_producer_id)
    /\ next_producer_id' = next_producer_id + 1
    /\ prod_pc' = [prod_pc EXCEPT ![next_producer_id] =
                      IF ipc_running THEN "new" ELSE "created"]
    /\ UNCHANGED <<ipcData, not_full, not_empty, consumers, ipc_running, next_consumer_id,
                   ipc_pc, start_raised, prod_running, prod_paused, cons_pc, cons_running,
                   cons_paused>>
    /\ IPCFrame

\* IPCManager.add_consumer
add_consumer ==
    /\ ipc_pc = "idle"
    /\ next_consumer_id <= MaxConsumers
    /\ consumers' = Append(consumers, next_consumer_id)
    /\ next_consumer_id' = next_consumer_id + 1
    /\ cons_pc' = [cons_pc EXCEPT ![next_consumer_id] =
                      IF ipc_running THEN "new" ELSE "created"]
    /\ UNCHANGED <<ipcData, not_full, not_empty, producers, ipc_running, next_producer_id,
                   ipc_pc, start_raised, prod_pc, prod_running, prod_paused, cons_running,
                   cons_paused>>
    /\ IPCFrame

\* IPCManager.remove_producer: producer.stop(), join(timeout=1.0), pop from the list
remove_producer(producer_id) ==
    /\ ipc_pc = "idle"
    /\ IF producer_id \in Range(producers)
       THEN /\ prod_running' = [prod_running EXCEPT ![producer_id] = FALSE]
            /\ prod_paused' = [prod_paused EXCEPT ![producer_id] = FALSE]
            /\ producers' = RemoveFirst(producers, producer_id)
       ELSE UNCHANGED <<prod_running, prod_paused, producers>>
    /\ UNCHANGED <<ipcData, not_full, not_empty, consumers, ipc_running, next_producer_id,
                   next_consumer_id, ipc_pc, start_raised, prod_pc, cons_pc, cons_running,
                   cons_paused>>
    /\ IPCFrame

\* IPCManager.remove_consumer
remove_consumer(consumer_id) ==
    /\ ipc_pc = "idle"
    /\ IF consumer_id \in Range(consumers)
       THEN /\ cons_running' = [cons_running EXCEPT ![consumer_id] = FALSE]
            /\ cons_paused' = [cons_paused EXCEPT ![consumer_id] = FALSE]
            /\ consumers' = RemoveFirst(consumers, consumer_id)
       ELSE UNCHANGED <<cons_running, cons_paused, consumers>>
    /\ UNCHANGED <<ipcData, not_full, not_empty, producers, ipc_running, next_producer_id,
                   next_consumer_id, ipc_pc, start_raised, prod_pc, prod_running,
                   prod_paused, cons_pc>>
    /\ IPCFrame

\* the positions in a list of threads on which Thread.start() raises
\* RuntimeError: the thread ran before and has finished
Restarted(list, pc) == {k \in 1..Len(list) : pc[list[k]] = "done"}

\* "for w in list: if not w.is_alive(): w.start()", up to position upto
StartThreads(list, pc, upto) ==
    [w \in DOMAIN pc |->
        IF \E k \in 1..upto : list[k] = w /\ pc[w] = "created" THEN "new" ELSE pc[w]]

\* the smallest element of a non-empty set of numbers
Least(S) == CHOOSE x \in S : \A y \in S : x <= y

\* IPCManager.start
ipc_start ==
    /\ ipc_pc = "idle"
    /\ IF ipc_running
       THEN UNCHANGED <<ipc_running, prod_pc, cons_pc, start_raised>>
       ELSE /\ ipc_running' = TRUE
            /\ IF Restarted(producers, prod_pc) # {}
               THEN /\ prod_pc' = StartThreads(producers, prod_pc,
                                               Least(Restarted(producers, prod_pc)) - 1)
                    /\ cons_pc' = cons_pc
                    /\ start_raised' = TRUE
               ELSE /\ prod_pc' = StartThreads(producers, prod_pc, Len(producers))
                    /\ IF Restarted(consumers, cons_pc) # {}
                       THEN /\ cons_pc' = StartThreads(consumers, cons_pc,
                                               Least(Restarted(consumers, cons_pc)) - 1)
                            /\ start_raised' = TRUE
                       ELSE /\ cons_pc' = StartThreads(consumers, cons_pc, Len(consumers))
                            /\ start_raised' = start_raised
    /\ UNCHANGED <<ipcData, not_full, not_empty, producers, consumers, next_producer_id,
                   next_consumer_id, ipc_pc, prod_running, prod_paused, cons_running,
                   cons_paused>>
    /\ IPCFrame

\* IPCManager.stop, first part: self._running = False and every listed
\* worker's stop()
ipc_stop ==
    /\ ipc_pc = "idle"
    /\ ipc_running' = FALSE
    /\ prod_running' = [p \in ProducerIds |->
                           IF p \in Range(producers) THEN FALSE ELSE prod_running[p]]
    /\ prod_paused' = [p \in ProducerIds |->
                           IF p \in Range(producers) THEN FALSE ELSE prod_paused[p]]
    /\ cons_running' = [c \in ConsumerIds |->
                           IF c \in Range(consumers) THEN FALSE ELSE cons_running[c]]
    /\ cons_paused' = [c \in ConsumerIds |->
                           IF c \in Range(consumers) THEN FALSE ELSE cons_paused[c]]
    /\ ipc_pc' = "notify"
    /\ UNCHANGED <<ipcData, not_full, not_empty, producers, consumers, next_producer_id,
                   next_consumer_id, start_raised, prod_pc, cons_pc>>
    /\ IPCFrame

\* IPCManager.stop, second part: notify_all on both conditions under the
\* buffer's lock, then the joins, each of which returns when its thread has
\* finished or after its timeout
ipc_stop_notify ==
    /\ ipc_pc = "notify"
    /\ not_full' = CondNotify(not_full, Len(not_full.waiters))
    /\ not_empty' = CondNotify(not_empty, Len(not_empty.waiters))
    /\ ipc_pc' = "idle"
    /\ UNCHANGED <<ipcData, producers, consumers, ipc_running, next_producer_id,
                   next_consumer_id, start_raised, prod_pc, prod_running, prod_paused,
                   cons_pc, cons_running, cons_paused>>
    /\ IPCFrame

\* IPCManager.pause
ipc_pause ==
    /\ ipc_pc = "idle"
    /\ prod_paused' = [p \in ProducerIds |->
                          IF p \in Range(producers) THEN TRUE ELSE prod_paused[p]]
    /\ cons_paused' = [c \in ConsumerIds |->
                          IF c \in Range(consumers) THEN TRUE ELSE cons_paused[c]]
    /\ UNCHANGED <<ipcData, not_full, not_empty, producers, consumers, ipc_running,
                   next_producer_id, next_consumer_id, ipc_pc, start_raised, prod_pc,
                   prod_running, cons_pc, cons_running>>
    /\ IPCFrame

\* IPCManager.resume
ipc_resume ==
    /\ ipc_pc = "idle"
    /\ prod_paused' = [p \in ProducerIds |->
                          IF p \in Range(producers) THEN FALSE ELSE prod_paused[p]]
    /\ cons_paused' = [c \in ConsumerIds |->
                          IF c \in Range(consumers) THEN FALSE ELSE cons_paused[c]]
    /\ UNCHANGED <<ipcData, not_full, not_empty, producers, consumers, ipc_running,
                   next_producer_id, next_consumer_id, ipc_pc, start_raised, prod_pc,
                   prod_running, cons_pc, cons_running>>
    /\ IPCFrame

ProdStep(p) == ProdBegin(p) \/ ProdTop(p) \/ ProdProduce(p) \/ ProdResume(p)
ConsStep(c) == ConsBegin(c) \/ ConsTop(c) \/ ConsConsume(c) \/ ConsResume(c)

NextIPC ==
    \/ add_producer
    \/ add_consumer
    \/ \E p \in ProducerIds : remove_producer(p)
    \/ \E c \in ConsumerIds : remove_consumer(c)
    \/ ipc_start
    \/ ipc_stop
    \/ ipc_stop_notify
    \/ ipc_pause
    \/ ipc_resume
    \/ \E p \in ProducerIds : ProdStep(p)
    \/ \E c \in ConsumerIds : ConsStep(c)

\* --------------------------------------------------------------- Scheduler
\* ScheduleProcess(pid, name, arrival_time, burst_time, priority) and its
\* __post_init__; the name is "P<pid>" and is left out
ScheduleProcess(pid, arrival_time, burst_time, priority) ==
    [pid |-> pid, arrival_time |-> arrival_time, burst_time |-> burst_time,
     priority |-> priority, remaining_time |-> burst_time,
     start_time |-> -1, finish_time |-> -1, waiting_time |-> 0, turnaround_time |-> 0]

\* GanttBlock(pid, name, start_time, end_time, color_index)
GanttBlock(pid, start_time, end_time, color_index) ==
    [pid |-> pid, start_time |-> start_time, end_time |-> end_time,
     color_index |-> color_index]

\* Scheduler.__init__
InitSched ==
    /\ sch_processes = <<>>
    /\ gantt_chart = <<>>
    /\ current_time = 0
    /\ time_slice = 2
    /\ sch_last = "none"
    /\ sch_ret = <<>>

\* Scheduler.reset, for one process
MutResetKeepsTimes(p) == p
ResetProcess(p) ==
    [p EXCEPT !.remaining_time = p.burst_time, !.start_time = -1, !.finish_time = -1,
              !.waiting_time = 0, !.turnaround_time = 0]

\* Scheduler.reset: the process list it leaves (the chart is cleared and the
\* clock set to 0 by the callers below)
ResetAll(procs) == [i \in 1..Len(procs) |-> ResetProcess(procs[i])]

\* the order of tuples (a, b) that Python's sort and min use
KeyLess(a, b) == a[1] < b[1] \/ (a[1] = b[1] /\ a[2] < b[2])

\* sorted(...) / list.sort: stable insertion of position k into a list of
\* positions that is sorted by key; keys[i] is the key of the i-th process
RECURSIVE InsertByKey(_, _, _)
InsertByKey(sorted, k, keys) ==
    IF sorted = <<>> THEN <<k>>
    ELSE IF KeyLess(keys[k], keys[Head(sorted)])
         THEN <<k>> \o sorted
         ELSE <<Head(sorted)>> \o InsertByKey(Tail(sorted), k, keys)

\* the positions 1..n in sorted order
RECURSIVE SortByKey(_, _)
SortByKey(keys, n) ==
    IF n = 0 THEN <<>>
    ELSE InsertByKey(SortByKey(keys, n - 1), n, keys)

\* key=lambda p: (p.arrival_time, p.pid)
MutArrivalOnlyKeys(procs) ==
    [i \in 1..Len(procs) |-> <<procs[i].arrival_time, 0>>]
ArrivalPidKeys(procs) ==
    [i \in 1..Len(procs) |-> <<procs[i].arrival_time, procs[i].pid>>]

\* min(candidates, key=...): the first candidate with the least key
RECURSIVE MinByKey(_, _)
MinByKey(candidates, keys) ==
    IF Len(candidates) = 1 THEN Head(candidates)
    ELSE LET m == MinByKey(Tail(candidates), keys)
         IN  IF KeyLess(keys[m], keys[Head(candidates)])
             THEN m ELSE Head(candidates)

\* "for p in self.processes: if p.pid == pid: ...; break": the position updated
\* (0 when there is none)
FirstWithPid(procs, pid) ==
    IF \E i \in 1..Len(procs) : procs[i].pid = pid
    THEN CHOOSE i \in 1..Len(procs) :
            procs[i].pid = pid /\ \A j \in 1..(i - 1) : procs[j].pid # pid
    ELSE 0

\* "update the original process": the result fields of the copy c are copied
\* to the first process of the list with its pid, remaining_time set to 0
UpdateOriginal(procs, c) ==
    LET k == FirstWithPid(procs, c.pid)
    IN  IF k = 0 THEN procs
        ELSE [procs EXCEPT ![k] = [@ EXCEPT !.start_time = c.start_time,
                                            !.finish_time = c.finish_time,
                                            !.turnaround_time = c.turnaround_time,
                                            !.waiting_time = c.waiting_time,
                                            !.remaining_time = 0]]

MutFinishedResponseTime(p, t) ==
    [p EXCEPT !.finish_time = t,
              !.turnaround_time = t - p.arrival_time,
              !.waiting_time = p.start_time - p.arrival_time]

\* a finished process: finish, turnaround and waiting time at time t
Finished(p, t) ==
    [p EXCEPT !.finish_time = t,
              !.turnaround_time = t - p.arrival_time,
              !.waiting_time = (t - p.arrival_time) - p.burst_time]

\* ---- Scheduler.fcfs
\* the loop over sorted_processes, whose elements are the objects of
\* self.processes; rs = [procs, gantt, time]
RECURSIVE FcfsLoop(_, _, _)
FcfsLoop(rs, order, i) ==
    IF i > Len(order) THEN rs
    ELSE LET k == order[i]
             p == rs.procs[k]
             t0 == IF rs.time < p.arrival_time THEN p.arrival_time ELSE rs.time
             fin == t0 + p.burst_time
             done == [Finished([p EXCEPT !.start_time = t0], fin)
                         EXCEPT !.remaining_time = 0]
         IN  FcfsLoop([procs |-> [rs.procs EXCEPT ![k] = done],
                       gantt |-> Append(rs.gantt,
                                        GanttBlock(p.pid, t0, fin, (i - 1) % 10)),
                       time |-> fin],
                      order, i + 1)

\* what a scheduling call leaves and returns: [procs, gantt, time, ret]
FcfsRun(procs) ==
    LET order == SortByKey(ArrivalPidKeys(procs), Len(procs))
        rs == FcfsLoop([procs |-> ResetAll(procs), gantt |-> <<>>, time |-> 0], order, 1)
    IN  [procs |-> rs.procs, gantt |-> rs.gantt, time |-> rs.time,
         ret |-> [i \in 1..Len(order) |-> rs.procs[order[i]]]]

\* color_map = {p.pid: i % 10 for i, p in enumerate(processes)}: a later
\* process of the same pid overrides an earlier one
ColorOf(procs, pid) ==
    LET last == CHOOSE i \in 1..Len(procs) :
                   procs[i].pid = pid /\ \A j \in (i + 1)..Len(procs) : procs[j].pid # pid
    IN  (last - 1) % 10

\* the positions of seq, in list order, that satisfy Keep
Positions(seq, Keep(_)) == SelectSeq([i \in 1..Len(seq) |-> i], Keep)

\* min(p.arrival_time for p in ...) over a non-empty set of positions
MutMaxArrival(procs, S) ==
    CHOOSE a \in {procs[i].arrival_time : i \in S} :
        \A i \in S : a >= procs[i].arrival_time
MinArrival(procs, S) ==
    CHOOSE a \in {procs[i].arrival_time : i \in S} :
        \A i \in S : a <= procs[i].arrival_time

\* ---- Scheduler.round_robin
\* st = [copies, queue, idx, time, gantt, procs]: the sorted deep copies, the
\* ready queue (positions of copies), process_index, the clock, the chart and
\* self.processes
RECURSIVE RRAdmit(_)
RRAdmit(st) ==
    IF st.idx < Len(st.copies) /\ st.copies[st.idx + 1].arrival_time <= st.time
    THEN RRAdmit([st EXCEPT !.queue = Append(@, st.idx + 1), !.idx = @ + 1])
    ELSE st

\* one dispatch: the head of the queue runs for min(time_slice, remaining)
MutRRDispatchWholeBurst(st, q) ==
    LET c == Head(st.queue)
        p == st.copies[c]
        execute_time == p.remaining_time
        end == st.time + execute_time
        ran == [p EXCEPT !.start_time = IF p.start_time < 0 THEN st.time ELSE @,
                         !.remaining_time = @ - execute_time]
        adm == RRAdmit([st EXCEPT !.queue = Tail(st.queue),
                                  !.time = end,
                                  !.gantt = Append(@, GanttBlock(p.pid, st.time, end,
                                                                 ColorOf(st.procs, p.pid)))])
    IN  [adm EXCEPT !.copies = [@ EXCEPT ![c] = Finished(ran, end)],
                    !.procs = UpdateOriginal(@, Finished(ran, end))]
MutRRDispatchRequeueFirst(st, q) ==
    LET c == Head(st.queue)
        p == st.copies[c]
        execute_time == Min(q, p.remaining_time)
        end == st.time + execute_time
        ran == [p EXCEPT !.start_time = IF p.start_time < 0 THEN st.time ELSE @,
                         !.remaining_time = @ - execute_time]
        adm == RRAdmit([st EXCEPT !.queue = IF ran.remaining_time > 0
                                            THEN Append(Tail(st.queue), c)
                                            ELSE Tail(st.queue),
                                  !.time = end,
                                  !.gantt = Append(@, GanttBlock(p.pid, st.time, end,
                                                                 ColorOf(st.procs, p.pid)))])
    IN  IF ran.remaining_time > 0
        THEN [adm EXCEPT !.copies = [@ EXCEPT ![c] = ran]]
        ELSE [adm EXCEPT !.copies = [@ EXCEPT ![c] = Finished(ran, end)],
                         !.procs = UpdateOriginal(@, Finished(ran, end))]
RRDispatch(st, q) ==
    LET c == Head(st.queue)
        p == st.copies[c]
        execute_time == Min(q, p.remaining_time)
        end == st.time + execute_time
        ran == [p EXCEPT !.start_time = IF p.start_time < 0 THEN st.time ELSE @,
                         !.remaining_time = @ - execute_time]
        adm == RRAdmit([st EXCEPT !.queue = Tail(st.queue),
                                  !.time = end,
                                  !.gantt = Append(@, GanttBlock(p.pid, st.time, end,
                                                                 ColorOf(st.procs, p.pid)))])
    IN  IF ran.remaining_time > 0
        THEN [adm EXCEPT !.copies = [@ EXCEPT ![c] = ran],
                         !.queue = Append(@, c)]
        ELSE [adm EXCEPT !.copies = [@ EXCEPT ![c] = Finished(ran, end)],
                         !.procs = UpdateOriginal(@, Finished(ran, end))]

RECURSIVE RRLoop(_, _)
RRLoop(st0, q) ==
    IF ~ (st0.idx < Len(st0.copies) \/ st0.queue # <<>>) THEN st0
    ELSE LET st == RRAdmit(st0)
         IN  IF st.queue = <<>>
             THEN RRLoop(IF st.idx < Len(st.copies)
                         THEN [st EXCEPT !.time = st.copies[st.idx + 1].arrival_time]
                         ELSE st, q)
             ELSE RRLoop(RRDispatch(st, q), q)

RoundRobinRun(procs, q) ==
    IF procs = <<>> THEN [procs |-> procs, gantt |-> <<>>, time |-> 0, ret |-> <<>>]
    ELSE LET fresh == ResetAll(procs)
             order == SortByKey(ArrivalPidKeys(fresh), Len(fresh))
             st == RRLoop([copies |-> [i \in 1..Len(order) |-> fresh[order[i]]],
                           queue |-> <<>>, idx |-> 0, time |-> 0, gantt |-> <<>>,
                           procs |-> fresh], q)
         IN  [procs |-> st.procs, gantt |-> st.gantt, time |-> st.time, ret |-> st.procs]

\* ---- Scheduler._sjf_non_preemptive and Scheduler.priority_scheduling
\* the two loops differ in the key of min() only.  st = [copies, completed,
\* time, gantt, procs]; completed holds positions of copies ("p not in
\* completed" compares field by field, and a completed copy differs from every
\* other one in its pid)
RECURSIVE NonPreemptiveLoop(_, _)
NonPreemptiveLoop(st, keys) ==
    IF Cardinality(st.completed) >= Len(st.copies) THEN st
    ELSE LET available == Positions(st.copies,
                              LAMBDA i : /\ st.copies[i].arrival_time <= st.time
                                         /\ i \notin st.completed)
             not_arrived == (1..Len(st.copies)) \ st.completed
         IN  IF available = <<>>
             THEN NonPreemptiveLoop([st EXCEPT !.time = MinArrival(st.copies, not_arrived)],
                                    keys)
             ELSE LET c == MinByKey(available, keys)
                      p == st.copies[c]
                      fin == st.time + p.burst_time
                      done == [Finished([p EXCEPT !.start_time = st.time], fin)
                                  EXCEPT !.remaining_time = 0]
                  IN  NonPreemptiveLoop(
                         [copies |-> [st.copies EXCEPT ![c] = done],
                          completed |-> st.completed \cup {c},
                          time |-> fin,
                          gantt |-> Append(st.gantt,
                                           GanttBlock(p.pid, st.time, fin,
                                                      ColorOf(st.procs, p.pid))),
                          procs |-> UpdateOriginal(st.procs, done)],
                         keys)

NonPreemptiveRun(procs, keys) ==
    IF procs = <<>> THEN [procs |-> procs, gantt |-> <<>>, time |-> 0, ret |-> <<>>]
    ELSE LET fresh == ResetAll(procs)
             st == NonPreemptiveLoop([copies |-> fresh, completed |-> {}, time |-> 0,
                                      gantt |-> <<>>, procs |-> fresh], keys)
         IN  [procs |-> st.procs, gantt |-> st.gantt, time |-> st.time, ret |-> st.procs]

\* key=lambda p: (p.burst_time, p.arrival_time)
MutArrivalBurstKeys(procs) ==
    [i \in 1..Len(procs) |-> <<procs[i].arrival_time, procs[i].burst_time>>]
BurstArrivalKeys(procs) ==
    [i \in 1..Len(procs) |-> <<procs[i].burst_time, procs[i].arrival_time>>]

\* key=lambda p: (p.priority, p.arrival_time)
PriorityArrivalKeys(procs) ==
    [i \in 1..Len(procs) |-> <<procs[i].priority, procs[i].arrival_time>>]

\* key=lambda p: (p.remaining_time, p.arrival_time)
MutStaticBurstKeys(procs) ==
    [i \in 1..Len(procs) |-> <<procs[i].burst_time, procs[i].arrival_time>>]
RemainingArrivalKeys(procs) ==
    [i \in 1..Len(procs) |-> <<procs[i].remaining_time, procs[i].arrival_time>>]

SjfNonPreemptiveRun(procs) == NonPreemptiveRun(procs, BurstArrivalKeys(procs))

\* priority_scheduling ignores its preemptive argument
PriorityRun(procs, preemptive) == NonPreemptiveRun(procs, PriorityArrivalKeys(procs))

\* ---- Scheduler._sjf_preemptive
\* st = [copies, time, gantt, procs, completed_count, last, last_start, hung,
\* unit]: last is the position of last_process in copies (0 for None); hung
\* says that the loop has reached a state it cannot leave (nothing available,
\* nothing left to arrive, completed_count < n); unit is the "1" of
\* "self.current_time += 1" in the resolution the times are measured in
RECURSIVE SrtfLoop(_)
SrtfLoop(st) ==
    IF st.completed_count >= Len(st.copies) THEN st
    ELSE
    LET available == Positions(st.copies,
                        LAMBDA i : /\ st.copies[i].arrival_time <= st.time
                                   /\ st.copies[i].remaining_time > 0)
        not_completed == {i \in 1..Len(st.copies) : st.copies[i].remaining_time > 0}
    IN  IF available = <<>>
        THEN IF not_completed = {}
             THEN [st EXCEPT !.hung = TRUE]
             ELSE SrtfLoop([st EXCEPT !.time = MinArrival(st.copies, not_completed)])
        ELSE
        LET c == MinByKey(available, RemainingArrivalKeys(st.copies))
            p == st.copies[c]
            switched == st.last # 0 /\ st.copies[st.last].pid # p.pid
            newrun == st.last = 0 \/ st.copies[st.last].pid # p.pid
            g1 == IF switched
                  THEN Append(st.gantt,
                              GanttBlock(st.copies[st.last].pid, st.last_start, st.time,
                                         ColorOf(st.procs, st.copies[st.last].pid)))
                  ELSE st.gantt
            ls == IF newrun THEN st.time ELSE st.last_start
            p1 == IF newrun /\ p.start_time < 0 THEN [p EXCEPT !.start_time = st.time] ELSE p
            t1 == st.time + st.unit
            p2 == [p1 EXCEPT !.remaining_time = @ - st.unit]
        IN  IF p2.remaining_time = 0
            THEN SrtfLoop([st EXCEPT
                     !.copies = [@ EXCEPT ![c] = Finished(p2, t1)],
                     !.time = t1,
                     !.gantt = Append(g1, GanttBlock(p.pid, ls, t1, ColorOf(st.procs, p.pid))),
                     !.procs = UpdateOriginal(@, Finished(p2, t1)),
                     !.completed_count = @ + 1,
                     !.last = 0,
                     !.last_start = ls])
            ELSE SrtfLoop([st EXCEPT
                     !.copies = [@ EXCEPT ![c] = p2],
                     !.time = t1,
                     !.gantt = g1,
                     !.last = c,
                     !.last_start = ls])

\* _sjf_preemptive on times measured in 1/unit of a time unit
SrtfRun(procs, unit) ==
    LET fresh == ResetAll(procs)
    IN  SrtfLoop([copies |-> fresh, time |-> 0, gantt |-> <<>>, procs |-> fresh,
                  completed_count |-> 0, last |-> 0, last_start |-> 0,
                  hung |-> FALSE, unit |-> unit])

\* sjf(preemptive=True) on whole-number times
SjfPreemptiveRun(procs) ==
    IF procs = <<>> THEN [procs |-> procs, gantt |-> <<>>, time |-> 0, ret |-> <<>>]
    ELSE LET st == SrtfRun(procs, 1)
         IN  [procs |-> st.procs, gantt |-> st.gantt, time |-> st.time, ret |-> st.procs]

\* ---- Scheduler.get_metrics
\* the sum of the values f[i], i in S
RECURSIVE SumOver(_, _)
SumOver(f, S) ==
    IF S = {} THEN 0
    ELSE LET i == CHOOSE x \in S : TRUE
         IN  f[i] + SumOver(f, S \ {i})

\* round(num / den, 2) in hundredths, for num >= 0 and den > 0: the nearest
\* hundredth, the even one of two equally near
Round2(num, den) ==
    LET lo == (100 * num) \div den
        rem2 == 2 * ((100 * num) % den)
    IN  IF rem2 > den \/ (rem2 = den /\ lo % 2 = 1) THEN lo + 1 ELSE lo

\* Scheduler.get_metrics; the two averages are in hundredths, the empty dict is
\* the record with process_count 0
get_metrics(procs, time) ==
    LET completed == {i \in 1..Len(procs) : procs[i].finish_time >= 0}
        n == Cardinality(completed)
    IN  IF n = 0
        THEN [avg_waiting_time |-> 0, avg_turnaround_time |-> 0, total_time |-> 0,
              process_count |-> 0]
        ELSE [avg_waiting_time |->
                  Round2(SumOver([i \in 1..Len(procs) |-> procs[i].waiting_time],
                                 completed), n),
              avg_turnaround_time |->
                  Round2(SumOver([i \in 1..Len(procs) |-> procs[i].turnaround_time],
                                 completed), n),
              total_time |-> time,
              process_count |-> n]

\* ---- the Scheduler's operations
\* the pids a caller gives to add_process: each one once
SchedPids == 1..MaxProcs
UsedPids == {sch_processes[i].pid : i \in 1..Len(sch_processes)}

\* Scheduler.add_process; the process list is built before the scheduling calls
\* are made on it (or rebuilt after clear_processes)
add_process(pid, arrival_time, burst_time, priority) ==
    /\ Len(sch_processes) < MaxProcs
    /\ pid \notin UsedPids
    /\ sch_last = "none"
    /\ sch_processes' = Append(sch_processes,
                               ScheduleProcess(pid, arrival_time, burst_time, priority))
    /\ sch_last' = "none"
    /\ sch_ret' = <<>>
    /\ UNCHANGED <<gantt_chart, current_time, time_slice>>
    /\ SchedFrame

\* Scheduler.clear_processes
clear_processes ==
    /\ sch_last # "hung"
    /\ sch_processes' = <<>>
    /\ gantt_chart' = <<>>
    /\ current_time' = 0
    /\ sch_last' = "none"
    /\ sch_ret' = <<>>
    /\ UNCHANGED time_slice
    /\ SchedFrame

\* a scheduling call has run with outcome r; the call before it has returned
SchedSet(r, alg) ==
    /\ sch_last # "hung"
    /\ sch_processes' = r.procs
    /\ gantt_chart' = r.gantt
    /\ current_time' = r.time
    /\ sch_ret' = r.ret
    /\ sch_last' = alg

\* Scheduler.fcfs
fcfs ==
    /\ SchedSet(FcfsRun(sch_processes), "fcfs")
    /\ UNCHANGED time_slice
    /\ SchedFrame

\* Scheduler.round_robin
round_robin(q) ==
    /\ SchedSet(RoundRobinRun(sch_processes, q), "rr")
    /\ time_slice' = q
    /\ SchedFrame

\* Scheduler.sjf
sjf(preemptive) ==
    /\ IF preemptive
       THEN SchedSet(SjfPreemptiveRun(sch_processes), "srtf")
       ELSE SchedSet(SjfNonPreemptiveRun(sch_processes), "sjf")
    /\ UNCHANGED time_slice
    /\ SchedFrame

\* Scheduler.sjf(preemptive=True) when the times of the list are counted in
\* ticks of 1/TicksPerUnit time unit; a call whose loop cannot leave its state
\* never returns
sjf_preemptive_ticks ==
    LET st == SrtfRun(sch_processes, TicksPerUnit)
    IN  /\ sch_processes # <<>>
        /\ sch_last # "hung"
        /\ IF st.hung
           THEN /\ sch_processes' = st.procs
                /\ gantt_chart' = st.gantt
                /\ current_time' = st.time
                /\ sch_last' = "hung"
                /\ sch_ret' = <<>>
           ELSE SchedSet([procs |-> st.procs, gantt |-> st.gantt, time |-> st.time,
                          ret |-> st.procs], "srtf")
        /\ UNCHANGED time_slice
        /\ SchedFrame

\* Scheduler.priority_scheduling
priority_scheduling(preemptive) ==
    /\ SchedSet(PriorityRun(sch_processes, preemptive), "priority")
    /\ UNCHANGED time_slice
    /\ SchedFrame

NextSched ==
    \/ \E pid \in SchedPids, a \in 0..MaxArrival, b \in 1..MaxBurst, pr \in 1..MaxPriority :
          add_process(pid, a, b, pr)
    \/ clear_processes
    \/ fcfs
    \/ \E q \in 1..MaxQuantum : round_robin(q)
    \/ \E preemptive \in BOOLEAN : sjf(preemptive)
    \/ \E preemptive \in BOOLEAN : priority_scheduling(preemptive)

\* the Scheduler on times that are multiples of 1/TicksPerUnit: every number
\* of the process list, the quantum and the chart counts ticks; a call that
\* does not return leaves nothing to do
NextSchedTicks ==
    \/ \E pid \in SchedPids, a \in 0..MaxArrival, b \in 1..MaxBurst :
          add_process(pid, a, b, 1)
    \/ clear_processes
    \/ fcfs
    \/ \E q \in 1..MaxQuantum : round_robin(q)
    \/ sjf(FALSE)
    \/ sjf_preemptive_ticks
    \/ \E preemptive \in BOOLEAN : priority_scheduling(preemptive)

\* --------------------------------------------------------- MemoryAllocator
MemoryBlock(addr, size, is_free, process_name) ==
    [start |-> addr, size |-> size, is_free |-> is_free, process_name |-> process_name]

\* MemoryAllocator(TotalSize): __init__ and _init_memory
InitAllocator ==
    /\ blocks = <<MemoryBlock(0, TotalSize, TRUE, "")>>
    /\ allocation_history = <<>>
    /\ next_fit_pointer = 0
    /\ mem_ret = "none"
    /\ next_fit_block = -1

\* process names given to allocate and deallocate; "" is the name free blocks carry
AllocNames == {"", "A", "B"}

AllocationAlgorithm == {"FIRST_FIT", "BEST_FIT", "WORST_FIT", "NEXT_FIT"}

\* the positions (from 1) of the blocks the scans accept:
\* block.is_free and block.size >= request.size
Fitting(bl, size) == {i \in 1..Len(bl) : bl[i].is_free /\ bl[i].size >= size}

\* the position each scan ends on, 0 when no block is accepted
RECURSIVE FirstFitScan(_, _, _)
FirstFitScan(bl, size, i) ==
    IF i > Len(bl) THEN 0
    ELSE IF bl[i].is_free /\ bl[i].size >= size THEN i
    ELSE FirstFitScan(bl, size, i + 1)

\* _first_fit: for i, block in enumerate(self.blocks), return at the first hit
FirstFitIndex(bl, size) == FirstFitScan(bl, size, 1)

\* the loop of _best_fit from block i on; best_idx = 0 stands for best_idx = -1
\* with best_size = float('inf'), otherwise best_size is bl[best_idx].size
RECURSIVE BestFitScan(_, _, _, _)
BestFitScan(bl, size, i, best_idx) ==
    IF i > Len(bl) THEN best_idx
    ELSE IF /\ bl[i].is_free /\ bl[i].size >= size
            /\ (best_idx = 0 \/ bl[i].size < bl[best_idx].size)
         THEN BestFitScan(bl, size, i + 1, i)
         ELSE BestFitScan(bl, size, i + 1, best_idx)

MutBestFitLastTie(bl, size) ==
    IF Fitting(bl, size) = {} THEN 0
    ELSE CHOOSE i \in Fitting(bl, size) :
            \A j \in Fitting(bl, size) :
                bl[i].size < bl[j].size \/ (bl[i].size = bl[j].size /\ i >= j)

\* _best_fit: block.size < best_size replaces the candidate
BestFitIndex(bl, size) == BestFitScan(bl, size, 1, 0)

\* the loop of _worst_fit from block i on; worst_idx = 0 stands for
\* worst_idx = -1 with worst_size = -1
RECURSIVE WorstFitScan(_, _, _, _)
WorstFitScan(bl, size, i, worst_idx) ==
    IF i > Len(bl) THEN worst_idx
    ELSE IF /\ bl[i].is_free /\ bl[i].size >= size
            /\ (worst_idx = 0 \/ bl[i].size > bl[worst_idx].size)
         THEN WorstFitScan(bl, size, i + 1, i)
         ELSE WorstFitScan(bl, size, i + 1, worst_idx)

\* _worst_fit: block.size > worst_size replaces the candidate
WorstFitIndex(bl, size) == WorstFitScan(bl, size, 1, 0)

\* the loop of _next_fit: i = (self.next_fit_pointer + offset) % n
RECURSIVE NextFitScan(_, _, _, _)
NextFitScan(bl, pointer, size, offset) ==
    IF offset >= Len(bl) THEN 0
    ELSE LET i == ((pointer + offset) % Len(bl)) + 1
         IN  IF bl[i].is_free /\ bl[i].size >= size THEN i
             ELSE NextFitScan(bl, pointer, size, offset + 1)

\* _next_fit, positions from 1
NextFitIndex(bl, pointer, size) == NextFitScan(bl, pointer, size, 0)

MutSplitNoRemainder(bl, index, size, name) ==
    [bl EXCEPT ![index] = MemoryBlock(bl[index].start, size, FALSE, name)]

\* MemoryAllocator._split_block, index from 1
_split_block(bl, index, size, name) ==
    LET blk == bl[index]
        remaining == blk.size - size
        taken == [bl EXCEPT ![index] = MemoryBlock(blk.start, size, FALSE, name)]
    IN  IF remaining > 0
        THEN SubSeq(taken, 1, index)
             \o <<MemoryBlock(blk.start + size, remaining, TRUE, "")>>
             \o SubSeq(taken, index + 1, Len(taken))
        ELSE taken

\* the loop of _merge_free_blocks with a mistake: i advances after a merge
RECURSIVE MutMergeLoopAdvances(_, _)
MutMergeLoopAdvances(bl, i) ==
    IF i >= Len(bl) THEN bl
    ELSE IF bl[i].is_free /\ bl[i + 1].is_free
         THEN MutMergeLoopAdvances(
                  SubSeq(bl, 1, i - 1)
                  \o <<[bl[i] EXCEPT !.size = bl[i].size + bl[i + 1].size]>>
                  \o SubSeq(bl, i + 2, Len(bl)), i + 1)
         ELSE MutMergeLoopAdvances(bl, i + 1)

MutMergeAdvances(bl) == MutMergeLoopAdvances(bl, 1)

\* the loop of _merge_free_blocks, i from 1
RECURSIVE MergeLoop(_, _)
MergeLoop(bl, i) ==
    IF i >= Len(bl) THEN bl
    ELSE IF bl[i].is_free /\ bl[i + 1].is_free
         THEN MergeLoop(SubSeq(bl, 1, i - 1)
                        \o <<[bl[i] EXCEPT !.size = bl[i].size + bl[i + 1].size]>>
                        \o SubSeq(bl, i + 2, Len(bl)), i)
         ELSE MergeLoop(bl, i + 1)

\* MemoryAllocator._merge_free_blocks
_merge_free_blocks(bl) == MergeLoop(bl, 1)

\* MemoryAllocator.reset
allocator_reset ==
    /\ blocks' = <<MemoryBlock(0, TotalSize, TRUE, "")>>
    /\ allocation_history' = <<>>
    /\ next_fit_pointer' = 0
    /\ mem_ret' = "none"
    /\ next_fit_block' = -1
    /\ AllocFrame

\* MemoryAllocator.allocate(MemoryRequest(name, size), algorithm) with
\* _first_fit, _best_fit, _worst_fit and _next_fit; the history records
\* "alloc" for the source's allocation label and "free" for its release label
allocate(name, size, algorithm) ==
    LET index == CASE algorithm = "FIRST_FIT" -> FirstFitIndex(blocks, size)
                   [] algorithm = "BEST_FIT" -> BestFitIndex(blocks, size)
                   [] algorithm = "WORST_FIT" -> WorstFitIndex(blocks, size)
                   [] algorithm = "NEXT_FIT" -> NextFitIndex(blocks, next_fit_pointer, size)
    IN  /\ Len(allocation_history) < MaxHistory
        /\ IF index > 0
           THEN /\ blocks' = _split_block(blocks, index, size, name)
                /\ next_fit_pointer' =
                      IF algorithm = "NEXT_FIT" THEN index - 1 ELSE next_fit_pointer
                /\ next_fit_block' =
                      IF algorithm = "NEXT_FIT" THEN blocks[index].start ELSE next_fit_block
                /\ allocation_history' = Append(allocation_history, <<"alloc", name, TRUE>>)
                /\ mem_ret' = "True"
           ELSE /\ allocation_history' = Append(allocation_history, <<"alloc", name, FALSE>>)
                /\ mem_ret' = "False"
                /\ UNCHANGED <<blocks, next_fit_pointer, next_fit_block>>
        /\ AllocFrame

MutFreeFirstOwned(bl, process_name) ==
    [i \in 1..Len(bl) |->
        IF /\ bl[i].process_name = process_name
           /\ \A j \in 1..(i - 1) : bl[j].process_name # process_name
        THEN [bl[i] EXCEPT !.is_free = TRUE, !.process_name = ""]
        ELSE bl[i]]

\* the first loop of deallocate: every block whose process_name is the given
\* one becomes free and loses its name
FreeOwned(bl, process_name) ==
    [i \in 1..Len(bl) |->
        IF bl[i].process_name = process_name
        THEN [bl[i] EXCEPT !.is_free = TRUE, !.process_name = ""]
        ELSE bl[i]]

\* MemoryAllocator.deallocate(process_name)
deallocate(process_name) ==
    LET found == \E i \in 1..Len(blocks) : blocks[i].process_name = process_name
    IN  /\ found => Len(allocation_history) < MaxHistory
        /\ IF found
           THEN /\ blocks' = _merge_free_blocks(FreeOwned(blocks, process_name))
                /\ allocation_history' = Append(allocation_history, <<"free", process_name, TRUE>>)
                /\ mem_ret' = "True"
                /\ next_fit_block' =
                      IF \E i \in 1..Len(blocks) : /\ blocks[i].start = next_fit_block
                                                   /\ blocks[i].process_name = process_name
                      THEN -1 ELSE next_fit_block
           ELSE /\ mem_ret' = "False"
                /\ UNCHANGED <<blocks, allocation_history, next_fit_block>>
        /\ UNCHANGED next_fit_pointer
        /\ AllocFrame

NextAlloc ==
    \/ \E name \in AllocNames, size \in 1..MaxRequest, algorithm \in AllocationAlgorithm :
          allocate(name, size, algorithm)
    \/ \E name \in AllocNames : deallocate(name)
    \/ allocator_reset

\* ------------------------------------------------------------ PageReplacer
PageReplacementAlgorithm == {"FIFO", "LRU", "OPT", "CLOCK"}

\* PageFrame(frame_id) with page_id -1 and is_free True by default
PageFrame(page_id, is_free) == [page_id |-> page_id, is_free |-> is_free]

MutInitFramesKeepsOrder(st) ==
    [st EXCEPT !.frames = [i \in 1..st.frame_count |-> PageFrame(-1, TRUE)],
               !.page_faults = 0,
               !.page_hits = 0,
               !.access_history = <<>>,
               !.clock_pointer = 0,
               !.reference_bits = {}]

\* PageReplacer._init_frames: every field but frame_count is assigned anew
_init_frames(st) ==
    [st EXCEPT !.frames = [i \in 1..st.frame_count |-> PageFrame(-1, TRUE)],
               !.page_faults = 0,
               !.page_hits = 0,
               !.access_history = <<>>,
               !.fifo_queue = <<>>,
               !.lru_order = <<>>,
               !.clock_pointer = 0,
               !.reference_bits = {}]

\* PageReplacer(n) after __init__ and _init_frames, as a record of its fields
NewReplacer(n) ==
    [frame_count |-> n,
     frames |-> [i \in 1..n |-> PageFrame(-1, TRUE)],
     page_faults |-> 0,
     page_hits |-> 0,
     access_history |-> <<>>,
     fifo_queue |-> <<>>,
     lru_order |-> <<>>,
     clock_pointer |-> 0,
     reference_bits |-> {}]

\* dict operations on reference_bits
BitsGet(bits, page, default) ==
    IF \E x \in bits : x[1] = page
    THEN (CHOOSE x \in bits : x[1] = page)[2]
    ELSE default
BitsDel(bits, page) == {x \in bits : x[1] # page}
BitsSet(bits, page, bit) == BitsDel(bits, page) \cup {<<page, bit>>}

MutFramesWithNone(fr, page_id) == {}

\* the positions of the frames holding page_id
FramesWith(fr, page_id) == {i \in 1..Len(fr) : fr[i].page_id = page_id}

\* for frame in self.frames: if frame.page_id == old: frame.page_id = new; break
ReplaceInFrame(fr, old_page, new_page) ==
    IF FramesWith(fr, old_page) = {} THEN fr
    ELSE LET i == CHOOSE x \in FramesWith(fr, old_page) :
                      \A y \in FramesWith(fr, old_page) : x <= y
         IN  [fr EXCEPT ![i].page_id = new_page]

\* PageReplacer._add_page
_add_page(st, page_id, algorithm) ==
    CASE algorithm = "FIFO" -> [st EXCEPT !.fifo_queue = Append(@, page_id)]
      [] algorithm = "LRU" -> [st EXCEPT !.lru_order = Append(@, page_id)]
      [] algorithm = "CLOCK" -> [st EXCEPT !.reference_bits = BitsSet(@, page_id, 1)]
      [] OTHER -> st

MutUpdateAccessRequeues(st, page_id, algorithm) ==
    CASE algorithm = "FIFO" ->
            [st EXCEPT !.fifo_queue = Append(RemoveFirst(@, page_id), page_id)]
      [] algorithm = "LRU" ->
            [st EXCEPT !.lru_order = Append(RemoveFirst(@, page_id), page_id)]
      [] algorithm = "CLOCK" -> [st EXCEPT !.reference_bits = BitsSet(@, page_id, 1)]
      [] OTHER -> st

\* PageReplacer._update_access
_update_access(st, page_id, algorithm) ==
    CASE algorithm = "LRU" ->
            [st EXCEPT !.lru_order = Append(RemoveFirst(@, page_id), page_id)]
      [] algorithm = "CLOCK" -> [st EXCEPT !.reference_bits = BitsSet(@, page_id, 1)]
      [] OTHER -> st

\* what a replacement yields: the new fields and the page it returns, or the
\* IndexError of list.pop(0) on an empty list
Replaced(st, old_page) == [st |-> st, replaced |-> old_page, raised |-> ""]
Raised(st) == [st |-> st, replaced |-> -1, raised |-> "IndexError"]

\* PageReplacer._fifo_replace
_fifo_replace(st, new_page) ==
    IF st.fifo_queue = <<>> THEN Raised(st)
    ELSE LET old_page == Head(st.fifo_queue)
         IN  Replaced([st EXCEPT !.frames = ReplaceInFrame(@, old_page, new_page),
                                 !.fifo_queue = Append(Tail(@), new_page)],
                      old_page)

MutLruReplaceNewest(st, new_page) ==
    IF st.lru_order = <<>> THEN Raised(st)
    ELSE LET old_page == st.lru_order[Len(st.lru_order)]
         IN  Replaced([st EXCEPT !.frames = ReplaceInFrame(@, old_page, new_page),
                                 !.lru_order = Append(SubSeq(@, 1, Len(@) - 1), new_page)],
                      old_page)

\* PageReplacer._lru_replace
_lru_replace(st, new_page) ==
    IF st.lru_order = <<>> THEN Raised(st)
    ELSE LET old_page == Head(st.lru_order)
         IN  Replaced([st EXCEPT !.frames = ReplaceInFrame(@, old_page, new_page),
                                 !.lru_order = Append(Tail(@), new_page)],
                      old_page)

MutDistanceAbsentNearest(page, future_access) ==
    IF \E k \in 1..Len(future_access) : future_access[k] = page
    THEN (CHOOSE k \in 1..Len(future_access) :
              /\ future_access[k] = page
              /\ \A j \in 1..(k - 1) : future_access[j] # page) - 1
    ELSE -1

\* future_access.index(page), or a value above every index when the page is
\* not in the list (float('inf'))
Distance(page, future_access) ==
    IF \E k \in 1..Len(future_access) : future_access[k] = page
    THEN (CHOOSE k \in 1..Len(future_access) :
              /\ future_access[k] = page
              /\ \A j \in 1..(k - 1) : future_access[j] # page) - 1
    ELSE Len(future_access)

MutOptNearest(st, new_page, future_access) ==
    LET in_memory == SelectSeq(st.frames, LAMBDA f : ~f.is_free)
        v == CHOOSE i \in 1..Len(in_memory) :
                 \A j \in 1..Len(in_memory) :
                     \/ Distance(in_memory[i].page_id, future_access)
                            < Distance(in_memory[j].page_id, future_access)
                     \/ /\ Distance(in_memory[i].page_id, future_access)
                              = Distance(in_memory[j].page_id, future_access)
                        /\ i <= j
    IN  Replaced([st EXCEPT !.frames = ReplaceInFrame(@, in_memory[v].page_id, new_page)],
                 in_memory[v].page_id)

\* PageReplacer._opt_replace, for frame_count >= 1: the first page of
\* in_memory with the greatest distance
_opt_replace(st, new_page, future_access) ==
    LET in_memory == SelectSeq(st.frames, LAMBDA f : ~f.is_free)
        v == CHOOSE i \in 1..Len(in_memory) :
                 \A j \in 1..Len(in_memory) :
                     \/ Distance(in_memory[i].page_id, future_access)
                            > Distance(in_memory[j].page_id, future_access)
                     \/ /\ Distance(in_memory[i].page_id, future_access)
                              = Distance(in_memory[j].page_id, future_access)
                        /\ i <= j
    IN  Replaced([st EXCEPT !.frames = ReplaceInFrame(@, in_memory[v].page_id, new_page)],
                 in_memory[v].page_id)

RECURSIVE MutClockStays(_, _)
MutClockStays(st, new_page) ==
    LET page == st.frames[st.clock_pointer + 1].page_id
        advanced == (st.clock_pointer + 1) % st.frame_count
    IN  IF BitsGet(st.reference_bits, page, 0) = 0
        THEN Replaced([st EXCEPT !.frames[st.clock_pointer + 1].page_id = new_page,
                                 !.reference_bits = BitsDel(BitsSet(@, new_page, 1), page)],
                      page)
        ELSE MutClockStays([st EXCEPT !.reference_bits = BitsSet(@, page, 0),
                                      !.clock_pointer = advanced],
                           new_page)

\* PageReplacer._clock_replace, for frame_count >= 1
RECURSIVE _clock_replace(_, _)
_clock_replace(st, new_page) ==
    LET page == st.frames[st.clock_pointer + 1].page_id
        advanced == (st.clock_pointer + 1) % st.frame_count
    IN  IF BitsGet(st.reference_bits, page, 0) = 0
        THEN Replaced([st EXCEPT !.frames[st.clock_pointer + 1].page_id = new_page,
                                 !.reference_bits = BitsDel(BitsSet(@, new_page, 1), page),
                                 !.clock_pointer = advanced],
                      page)
        ELSE _clock_replace([st EXCEPT !.reference_bits = BitsSet(@, page, 0),
                                       !.clock_pointer = advanced],
                            new_page)

\* PageReplacer.access_page: the new fields and what the call returns or raises
AccessPage(st, page_id, algorithm, future_access) ==
    IF FramesWith(st.frames, page_id) # {}
    THEN [st |-> [_update_access([st EXCEPT !.page_hits = @ + 1], page_id, algorithm)
                     EXCEPT !.access_history = Append(@, <<page_id, TRUE, -1>>)],
          hit |-> TRUE, replaced |-> -1, raised |-> ""]
    ELSE LET missed == [st EXCEPT !.page_faults = @ + 1]
             free == {i \in 1..Len(st.frames) : st.frames[i].is_free}
         IN  IF free # {}
             THEN LET i == CHOOSE x \in free : \A y \in free : x <= y
                  IN  [st |-> [_add_page([missed EXCEPT !.frames[i] = PageFrame(page_id, FALSE)],
                                         page_id, algorithm)
                                  EXCEPT !.access_history = Append(@, <<page_id, FALSE, -1>>)],
                       hit |-> FALSE, replaced |-> -1, raised |-> ""]
             ELSE LET r == CASE algorithm = "FIFO" -> _fifo_replace(missed, page_id)
                             [] algorithm = "LRU" -> _lru_replace(missed, page_id)
                             [] algorithm = "OPT" ->
                                    _opt_replace(missed, page_id, future_access)
                             [] algorithm = "CLOCK" -> _clock_replace(missed, page_id)
                  IN  IF r.raised # ""
                      THEN [st |-> r.st, hit |-> FALSE, replaced |-> -1, raised |-> r.raised]
                      ELSE [st |-> [r.st EXCEPT !.access_history =
                                                   Append(@, <<page_id, FALSE, r.replaced>>)],
                            hit |-> FALSE, replaced |-> r.replaced, raised |-> ""]

\* get_frame_state
FrameState(st) == [i \in 1..Len(st.frames) |-> st.frames[i].page_id]

\* the loop of run_sequence from reference i on; steps is the list built so far
RECURSIVE RunLoop(_, _, _, _, _)
RunLoop(st, steps, page_sequence, algorithm, i) ==
    IF i > Len(page_sequence) THEN [st |-> st, steps |-> steps, raised |-> ""]
    ELSE LET future == IF algorithm = "OPT"
                       THEN SubSeq(page_sequence, i + 1, Len(page_sequence))
                       ELSE <<>>
             r == AccessPage(st, page_sequence[i], algorithm, future)
         IN  IF r.raised # "" THEN [st |-> r.st, steps |-> steps, raised |-> r.raised]
             ELSE RunLoop(r.st,
                          Append(steps, [page |-> page_sequence[i],
                                         hit |-> r.hit,
                                         replaced |-> r.replaced,
                                         frame_state |-> FrameState(r.st),
                                         page_faults |-> r.st.page_faults,
                                         page_hits |-> r.st.page_hits]),
                          page_sequence, algorithm, i + 1)

\* PageReplacer.run_sequence on a replacer of n frames: reset, then the loop
RunSequence(n, page_sequence, algorithm) ==
    RunLoop(NewReplacer(n), <<>>, page_sequence, algorithm, 1)

\* the replacer's fields as a record, and back
Replacer ==
    [frame_count |-> frame_count, frames |-> frames, page_faults |-> page_faults,
     page_hits |-> page_hits, access_history |-> access_history,
     fifo_queue |-> fifo_queue, lru_order |-> lru_order,
     clock_pointer |-> clock_pointer, reference_bits |-> reference_bits]

ReplacerIs(st) ==
    /\ frame_count = st.frame_count
    /\ frames = st.frames
    /\ page_faults = st.page_faults
    /\ page_hits = st.page_hits
    /\ access_history = st.access_history
    /\ fifo_queue = st.fifo_queue
    /\ lru_order = st.lru_order
    /\ clock_pointer = st.clock_pointer
    /\ reference_bits = st.reference_bits

ReplacerBecomes(st) ==
    /\ frame_count' = st.frame_count
    /\ frames' = st.frames
    /\ page_faults' = st.page_faults
    /\ page_hits' = st.page_hits
    /\ access_history' = st.access_history
    /\ fifo_queue' = st.fifo_queue
    /\ lru_order' = st.lru_order
    /\ clock_pointer' = st.clock_pointer
    /\ reference_bits' = st.reference_bits

NoCall == [op |-> "none", alg |-> "", arg |-> <<>>, prior |-> 0]
NoReturn == [hit |-> FALSE, replaced |-> -1, raised |-> "none"]

\* PageReplacer(n)
InitPager(n) ==
    /\ ReplacerIs(NewReplacer(n))
    /\ pr_call = NoCall
    /\ pr_ret = NoReturn
    /\ pr_steps = <<>>
    /\ pr_algs = {}

Pages == 0..MaxPage

\* the lists of at most n page ids
PageSeqs(n) == UNION {[1..k -> Pages] : k \in 0..n}

\* PageReplacer.reset
pager_reset ==
    /\ ReplacerBecomes(_init_frames(Replacer))
    /\ pr_call' = [op |-> "reset", alg |-> "", arg |-> <<>>, prior |-> 0]
    /\ pr_ret' = NoReturn
    /\ pr_steps' = <<>>
    /\ pr_algs' = {}
    /\ PagerFrame

\* PageReplacer.access_page(page_id, algorithm, future_access)
access_page(page_id, algorithm, future_access) ==
    LET r == AccessPage(Replacer, page_id, algorithm, future_access)
    IN  /\ page_faults + page_hits < MaxAccesses
        /\ ReplacerBecomes(r.st)
        /\ pr_call' = [op |-> "access_page", alg |-> algorithm, arg |-> <<page_id>>,
                       prior |-> 0]
        /\ pr_ret' = [hit |-> r.hit, replaced |-> r.replaced, raised |-> r.raised]
        /\ pr_steps' = <<>>
        /\ pr_algs' = pr_algs \cup {algorithm}
        /\ PagerFrame

\* PageReplacer.run_sequence(page_sequence, algorithm)
run_sequence(page_sequence, algorithm) ==
    LET r == RunLoop(_init_frames(Replacer), <<>>, page_sequence, algorithm, 1)
    IN  /\ page_faults + page_hits <= MaxPrior
        /\ ReplacerBecomes(r.st)
        /\ pr_call' = [op |-> "run_sequence", alg |-> algorithm, arg |-> page_sequence,
                       prior |-> page_faults + page_hits]
        /\ pr_ret' = [hit |-> FALSE, replaced |-> -1, raised |-> r.raised]
        /\ pr_steps' = r.steps
        /\ pr_algs' = IF page_sequence = <<>> THEN {} ELSE {algorithm}
        /\ PagerFrame

NextPager ==
    \/ \E page_id \in Pages, algorithm \in PageReplacementAlgorithm :
          \E future_access \in (IF algorithm = "OPT" THEN PageSeqs(MaxFuture) ELSE {<<>>}) :
              access_page(page_id, algorithm, future_access)
    \/ \E page_sequence \in PageSeqs(MaxSeqLen), algorithm \in PageReplacementAlgorithm :
          run_sequence(page_sequence, algorithm)
    \/ pager_reset

InitMemory ==
    /\ InitAllocator
    /\ InitPager(MaxFrames)

\* ------------------------------------------- stand-alone Semaphore: threads
SemThreads == 1..NumSemThreads

SemInit0 ==
    /\ sem_pc = [t \in SemThreads |-> "idle"]
    /\ sem_ret = [t \in SemThreads |-> "none"]
    /\ sem_hist = [phase |-> "pristine", immediate |-> 0, blocked |-> 0]
    /\ sem_forced = {}

\* the stand-alone semaphore as constructed by default, never used
InitSemIdle ==
    /\ sem = NewSemaphore(1)
    /\ SemInit0

InitSem ==
    /\ \E v \in 0..MaxSemInit : sem = NewSemaphore(v)
    /\ SemInit0
    /\ InitPM
    /\ InitDP
    /\ InitIPC
    /\ InitSched
    /\ InitMemory

\* a thread calls P(): it returns at once or blocks in wait()
SemCallP(t) ==
    /\ sem_pc[t] = "idle"
    /\ SemFrame
    /\ sem' = SemPEnter(sem, t)
    /\ sem_forced' = sem_forced \ {t}
    /\ IF SemPBlocks(sem)
       THEN /\ sem_pc' = [sem_pc EXCEPT ![t] = "waiting"]
            /\ sem_ret' = [sem_ret EXCEPT ![t] = "none"]
            /\ sem_hist' = IF sem_hist.phase = "pristine"
                           THEN [sem_hist EXCEPT !.blocked = @ + 1]
                           ELSE sem_hist
       ELSE /\ sem_pc' = sem_pc
            /\ sem_ret' = [sem_ret EXCEPT ![t] = "immediate"]
            /\ sem_hist' = IF sem_hist.phase = "pristine"
                           THEN [sem_hist EXCEPT !.immediate = @ + 1]
                           ELSE sem_hist

\* a notified thread gets the lock back and finishes its P()
SemResumeP(t) ==
    /\ sem_pc[t] = "waiting"
    /\ t \in sem.notified
    /\ sem' = SemPResume(sem, t)
    /\ sem_pc' = [sem_pc EXCEPT ![t] = "idle"]
    /\ sem_ret' = [sem_ret EXCEPT ![t] =
                      IF SemPResult(sem, t) THEN "granted" ELSE "cancelled"]
    /\ UNCHANGED <<sem_hist, sem_forced>>
    /\ SemFrame

\* a thread that is not inside P() calls V()
SemCallV(t) ==
    /\ sem_pc[t] = "idle"
    /\ sem.value < MaxSemValue
    /\ sem' = SemV(sem)
    /\ sem_hist' = IF sem_hist.phase = "torn" THEN sem_hist
                   ELSE [phase |-> "released", immediate |-> 0, blocked |-> 0]
    /\ UNCHANGED <<sem_pc, sem_ret, sem_forced>>
    /\ SemFrame

SemCallForceWakeupAll ==
    /\ sem' = SemForceWakeupAll(sem)
    /\ sem_hist' = [phase |-> "torn", immediate |-> 0, blocked |-> 0]
    /\ sem_forced' = sem_forced \cup {t \in SemThreads : sem_pc[t] = "waiting"}
    /\ UNCHANGED <<sem_pc, sem_ret>>
    /\ SemFrame

SemCallReset ==
    /\ sem' = SemReset(sem)
    /\ sem_hist' = [phase |-> "torn", immediate |-> 0, blocked |-> 0]
    /\ UNCHANGED <<sem_pc, sem_ret, sem_forced>>
    /\ SemFrame

NextSem ==
    \/ \E t \in SemThreads : SemCallP(t)
    \/ \E t \in SemThreads : SemResumeP(t)
    \/ \E t \in SemThreads : SemCallV(t)
    \/ SemCallForceWakeupAll
    \/ SemCallReset

SpecSem == InitSem /\ [][NextSem]_vars

\* a notified waiter is runnable: it gets the lock back after finitely many
\* critical sections of the other threads
FairSpecSem == SpecSem /\ \A t \in SemThreads : WF_vars(SemResumeP(t))

\* ------------------------------------------------- ProcessManager: commands
NextPM ==
    \/ create_process
    \/ \E pid \in Pids : ready(pid)
    \/ \E pid \in Pids : run(pid)
    \/ \E pid \in Pids : block(pid)
    \/ \E pid \in Pids : terminate(pid)
    \/ \E pid \in Pids : delete_process(pid)

InitSpecPM ==
    /\ InitPM
    /\ InitSemIdle
    /\ InitDP
    /\ InitIPC
    /\ InitSched
    /\ InitMemory

SpecPM == InitSpecPM /\ [][NextPM]_vars

\* the ProcessManager with its threads
NextPMThreads ==
    \/ create_process
    \/ \E pid \in Pids : ready(pid)
    \/ \E pid \in Pids : run(pid)
    \/ \E pid \in Pids : block(pid)
    \/ \E pid \in Pids : terminate(pid)
    \/ \E pid \in Pids : delete_process(pid)
    \/ \E pid \in Pids : create_thread(pid)
    \/ \E tid \in Tids : thread_ready(tid)
    \/ \E tid \in Tids : thread_run(tid)
    \/ \E tid \in Tids : thread_block(tid)
    \/ \E tid \in Tids : thread_terminate(tid)
    \/ \E tid \in Tids : delete_thread(tid)

InitSpecPMThreads ==
    /\ InitPM
    /\ InitSemIdle
    /\ InitDP
    /\ InitIPC
    /\ InitSched
    /\ InitMemory

SpecPMThreads == InitSpecPMThreads /\ [][NextPMThreads]_vars

\* ------------------------------------------- DiningPhilosophers: the runs
InitSpecDP ==
    /\ InitDP
    /\ InitSemIdle
    /\ InitPM
    /\ InitIPC
    /\ InitSched
    /\ InitMemory

SpecDP == InitSpecDP /\ [][NextDP]_vars

\* every live philosopher thread keeps being scheduled, and a stop() that was
\* called runs to its end
FairSpecDP ==
    /\ SpecDP
    /\ \A i \in Phil : WF_vars(PhStep(i))
    /\ WF_vars(StopForce)
    /\ WF_vars(StopReset)

InitSpecIPC ==
    /\ InitIPC
    /\ InitSched
    /\ InitMemory
    /\ InitSemIdle
    /\ InitPM
    /\ InitDP

SpecIPC == InitSpecIPC /\ [][NextIPC]_vars

InitSpecBuffer ==
    /\ InitIPC
    /\ InitSched
    /\ InitMemory
    /\ InitSemIdle
    /\ InitPM
    /\ InitDP

SpecBuffer == InitSpecBuffer /\ [][NextBuffer]_vars

\* a thread whose wait() was notified gets the lock again and goes on; whether
\* and when a thread calls produce, consume or clear is up to the callers
FairSpecBuffer ==
    /\ SpecBuffer
    /\ \A t \in BufThreads : WF_vars(BufProduceResume(t))
    /\ \A t \in BufThreads : WF_vars(BufConsumeResume(t))

\* every thread that can take a step eventually takes one, and a stop() that
\* has begun runs to its end
FairSpecIPC ==
    /\ SpecIPC
    /\ \A p \in ProducerIds : WF_vars(ProdStep(p))
    /\ \A c \in ConsumerIds : WF_vars(ConsStep(c))
    /\ WF_vars(ipc_stop_notify)

InitSpecSched ==
    /\ InitSched
    /\ InitMemory
    /\ InitSemIdle
    /\ InitPM
    /\ InitDP
    /\ InitIPC

SpecSched == InitSpecSched /\ [][NextSched]_vars

InitSpecSchedTicks ==
    /\ InitSched
    /\ InitMemory
    /\ InitSemIdle
    /\ InitPM
    /\ InitDP
    /\ InitIPC

SpecSchedTicks == InitSpecSchedTicks /\ [][NextSchedTicks]_vars

InitSpecAlloc ==
    /\ InitMemory
    /\ InitSched
    /\ InitSemIdle
    /\ InitPM
    /\ InitDP
    /\ InitIPC

SpecAlloc == InitSpecAlloc /\ [][NextAlloc]_vars

\* a PageReplacer of 1..MaxFrames frames
InitSpecPager ==
    /\ \E n \in 1..MaxFrames : InitPager(n)
    /\ InitAllocator
    /\ InitSched
    /\ InitSemIdle
    /\ InitPM
    /\ InitDP
    /\ InitIPC

SpecPager == InitSpecPager /\ [][NextPager]_vars

\* ------------------------------------------------------------------ claims
\* C1, first part: while only P() calls have been made on a semaphore of
\* initial value V, the calls that returned at once number min(calls, V) and
\* every other call is blocked un-woken; the counter is V - calls.
C1_Counts ==
    sem_hist.phase = "pristine" =>
        LET calls == sem_hist.immediate + sem_hist.blocked
        IN  /\ sem_hist.immediate = Min(calls, sem.initial)
            /\ Len(sem.waiters) = sem_hist.blocked
            /\ sem.notified = {}
            /\ sem.value = sem.initial - calls

\* C1, second part: without a force-release or reset, the un-woken waiters are
\* exactly -counter many (each V() wakes exactly one), they are woken in the
\* order in which they blocked, and no blocked call returns cancelled.
C1_Fifo ==
    sem_hist.phase # "torn" =>
        /\ Len(sem.waiters) = Max(0, - sem.value)
        /\ sem.waiters = SelectSeq(sem.waiting_queue, LAMBDA w : w \notin sem.notified)
        /\ \A i, j \in 1..Len(sem.waiting_queue) :
              (i < j /\ sem.waiting_queue[j] \in sem.notified)
                  => sem.waiting_queue[i] \in sem.notified
        /\ \A t \in SemThreads : sem_ret[t] # "cancelled"

\* C1, third part: a waiter woken by V() eventually returns from P() granted.
C1_Live ==
    \A t \in SemThreads :
        (t \in sem.notified /\ sem_hist.phase # "torn")
            ~> (sem_ret[t] = "granted" \/ sem_hist.phase = "torn")

\* C1: of N concurrent P() on a semaphore of initial value V exactly V return
\* at once and N-V block; V() calls wake the blocked callers one at a time in
\* blocking order, and every woken caller is eventually granted.
C1_SemaphoreFifo == [](C1_Counts /\ C1_Fifo) /\ C1_Live

C1_Witness ==
    /\ sem_hist.phase = "released"
    /\ sem.initial = 1
    /\ \E t \in SemThreads : sem_ret[t] = "granted"
    /\ \E t \in SemThreads : sem_ret[t] = "immediate"
    /\ Len(sem.waiters) >= 1

\* the state an operation asks for
TargetOf(op) ==
    CASE op = "ready" -> "READY"
      [] op = "run" -> "RUNNING"
      [] op = "block" -> "BLOCKED"
      [] op = "terminate" -> "TERMINATED"
      [] OTHER -> "none"

\* a step that is a call of ready/run/block/terminate asking for a transition
\* that `table` does not hold (the pid unknown, or the pair absent)
AttemptOutside(table) ==
    /\ pm_last'.op \in {"ready", "run", "block", "terminate"}
    /\ \/ processes[pm_last'.pid] = "none"
       \/ <<processes[pm_last'.pid], TargetOf(pm_last'.op)>> \notin table

\* every change of a process's state is a pair of `table`, and every attempt
\* outside `table` fails and changes nothing
FollowsTable(table) ==
    /\ \A p \in Pids :
          (processes[p] # "none" /\ processes'[p] # "none" /\ processes'[p] # processes[p])
              => <<processes[p], processes'[p]>> \in table
    /\ AttemptOutside(table) =>
          /\ pm_last'.ok = FALSE
          /\ UNCHANGED <<processes, ready_queue, blocked_queue, running_process>>

\* the table as the claim gives it
ClaimedTable ==
    {<<"CREATED", "READY">>, <<"READY", "RUNNING">>,
     <<"RUNNING", "READY">>, <<"RUNNING", "BLOCKED">>, <<"RUNNING", "TERMINATED">>,
     <<"BLOCKED", "READY">>}

RunningPids == {p \in Pids : processes[p] = "RUNNING"}

C10_OneRunning ==
    /\ Cardinality(RunningPids) <= 1
    /\ running_process = None <=> RunningPids = {}
    /\ running_process # None => RunningPids = {running_process}

\* a successful run(pid) while another process runs puts that one in READY,
\* on the ready queue, and makes pid the running process
C10_Displaces ==
    (/\ pm_last' # pm_last
     /\ pm_last'.op = "run"
     /\ pm_last'.ok
     /\ running_process # None)
        => /\ processes'[running_process] = "READY"
           /\ running_process \in Range(ready_queue')
           /\ running_process' = pm_last'.pid
           /\ processes'[pm_last'.pid] = "RUNNING"

\* C10: at most one process is RUNNING, running_process is that process (None
\* when there is none), and run(pid) displaces the running process to READY.
C10_SingleRunning == [](C10_OneRunning) /\ [][C10_Displaces]_vars

\* run(pid) has just displaced another process
C10_Witness ==
    /\ pm_last.op = "run"
    /\ pm_last.ok
    /\ running_process = pm_last.pid
    /\ \E q \in Pids : q # running_process /\ q \in Range(ready_queue)
    /\ \E q \in Pids : processes[q] = "BLOCKED"

\* the table was laid by start() with deadlock prevention on (TRUE) or off
DiningWith(prevention) ==
    /\ philosophers = Phil
    /\ \A i \in Phil : /\ left_fork[i] = LeftForkOf(i, prevention)
                       /\ right_fork[i] = RightForkOf(i, prevention)
                       /\ pickup_delay[i] = ~ prevention

\* every philosopher holds its left fork and is blocked, un-woken, in P() on
\* its right fork
CircularWait ==
    \A i \in Phil : /\ ph_pc[i] = "waitR"
                    /\ i \notin forks[right_fork[i]].notified

\* C2 as stated: with deadlock avoidance on, no state of a running table
\* satisfies the predicate of check_deadlock().
C2_Original == DiningWith(TRUE) => ~ check_deadlock

\* C3, first part: in the circular wait check_deadlock() returns true
C3_Detected ==
    (DiningWith(FALSE) /\ dp_running /\ CircularWait) => check_deadlock

\* C3, second part: the circular wait lasts until stop() is called; in it every
\* philosopher is HUNGRY, so none eats
C3_Stable ==
    (DiningWith(FALSE) /\ dp_running /\ CircularWait)
        => \/ CircularWait' /\ \A i \in Phil : ph_state'[i] = "HUNGRY"
           \/ ~ dp_running'

LeftForksOnly ==
    \A i \in Phil :
        \/ ph_pc[i] \in {"gotL", "delayL", "pR"}
        \/ ph_pc[i] = "waitR" /\ i \notin forks[right_fork[i]].notified

\* C4 as stated: with avoidance off, check_deadlock() is true in exactly the
\* running states in which the philosophers are deadlocked, each holding its
\* left fork and waiting for its right one.
C4_Original ==
    (DiningWith(FALSE) /\ dp_running) => (check_deadlock <=> LeftForksOnly)

\* stop() was called on a started table
StopCalled == mgr_pc # "idle" /\ \E i \in Phil : ph_pc[i] # "none"

\* C5 as stated: after stop() is called every started philosopher thread
\* eventually terminates.
C5_Original == StopCalled ~> (\A i \in Phil : ~ Alive(i))

\* ---- IPCManager.stop
\* stop() has set the flags of every listed worker and w is one of them,
\* started and not finished
StoppingProducer(p) ==
    ipc_pc = "notify" /\ p \in Range(producers) /\ ThreadAlive(prod_pc[p])

StoppingConsumer(c) ==
    ipc_pc = "notify" /\ c \in Range(consumers) /\ ThreadAlive(cons_pc[c])

\* C6 as stated: after IPCManager.stop() is called every started producer and
\* consumer thread eventually terminates (the runs that end at the last item
\* id of the model are left aside).
C6_Original ==
    /\ \A p \in ProducerIds :
          StoppingProducer(p) ~> (~ ThreadAlive(prod_pc[p]) \/ item_id = MaxItems)
    /\ \A c \in ConsumerIds :
          StoppingConsumer(c) ~> (~ ThreadAlive(cons_pc[c]) \/ item_id = MaxItems)

\* ---- SharedBuffer
C7_Bounded ==
    /\ Len(buffer) >= 0
    /\ Len(buffer) <= Capacity
    /\ Len(buffer) + Len(consumed) = item_id

C7_Steps ==
    /\ Len(buffer') > Len(buffer) => Len(buffer) < Capacity
    /\ Len(consumed') > Len(consumed) => Len(buffer) > 0

\* C7: in every reachable state 0 <= len(buffer) <= capacity (as many items are
\* buffered as were produced and not yet consumed); produce appends only to a
\* buffer that is not full and consume pops only from one that is not empty.
C7_BufferBounds == [](C7_Bounded) /\ [][C7_Steps]_vars

\* a producer waits at the full buffer after items have been consumed
C7_Witness ==
    /\ Len(buffer) = Capacity
    /\ \E t \in BufThreads : buf_pc[t] = "pwait"
    /\ consumed # <<>>

Ids(items) == [i \in 1..Len(items) |-> items[i].id]

\* C8: since the last clear(), the items consume() has returned, followed by
\* the items still buffered, are the items 1, 2, ..., _item_id in ascending
\* order: items leave in the order they were appended, whoever produced and
\* whoever consumed them, each exactly once.
C8_FifoOnce == Ids(consumed) \o Ids(buffer) = [k \in 1..item_id |-> k]

\* items of two producers have been returned to two consumers, and one is
\* still buffered
C8_Witness ==
    /\ buffer # <<>>
    /\ \E i, j \in 1..Len(consumed) :
          /\ consumed[i].producer # consumed[j].producer
          /\ consumed[i].consumer # consumed[j].consumer

\* ---- ProcessManager: deletion
\* the pids and tids that have been given out and are no longer in the dicts
DeletedPids == {p \in Pids : p < next_pid /\ processes[p] = "none"}
DeletedTids == {t \in Tids : t < next_tid /\ threads[t].state = "none"}

\* C11 as stated: a deleted pid is absent from the process table, both queues
\* and the running slot, and no thread of the thread table is owned by it; a
\* deleted tid is in no process's thread list.
C11_Original ==
    /\ \A p \in DeletedPids :
          /\ p \notin Range(ready_queue)
          /\ p \notin Range(blocked_queue)
          /\ running_process # p
          /\ \A t \in Tids : threads[t].state # "none" => threads[t].pid # p
    /\ \A t \in DeletedTids : \A p \in Pids : t \notin Range(proc_threads[p])

\* ---- Scheduler
\* the process of the list with this pid
ProcOf(pid) == sch_processes[FirstWithPid(sch_processes, pid)]

BlockLen(b) == b.end_time - b.start_time

\* the time the blocks before position i of the chart give to pid
RECURSIVE ExecutedBefore(_, _)
ExecutedBefore(i, pid) ==
    IF i <= 1 THEN 0
    ELSE ExecutedBefore(i - 1, pid)
         + (IF gantt_chart[i - 1].pid = pid THEN BlockLen(gantt_chart[i - 1]) ELSE 0)

\* the chart and waiting times of a run, as lists of plain tuples
ChartOf(r) == [i \in 1..Len(r.gantt) |->
                  <<r.gantt[i].pid, r.gantt[i].start_time, r.gantt[i].end_time>>]
WaitingOf(r) == [i \in 1..Len(r.procs) |-> r.procs[i].waiting_time]

\* (name, arrival, burst) = (P1,0,5), (P2,1,3), (P3,2,8)
ExampleThree ==
    <<ScheduleProcess(1, 0, 5, 1), ScheduleProcess(2, 1, 3, 1), ScheduleProcess(3, 2, 8, 1)>>

\* (P1,0,5), (P2,1,3)
ExampleTwo == <<ScheduleProcess(1, 0, 5, 1), ScheduleProcess(2, 1, 3, 1)>>

\* after fcfs(): one block per process, in ascending (arrival_time, pid)
\* order, each as long as the burst, starting at the later of the previous
\* block's end and the arrival
C12_FcfsOrder ==
    sch_last = "fcfs" =>
        /\ Len(gantt_chart) = Len(sch_processes)
        /\ \A i \in 1..Len(gantt_chart) :
              LET b == gantt_chart[i]
                  p == ProcOf(b.pid)
                  clock == IF i = 1 THEN 0 ELSE gantt_chart[i - 1].end_time
              IN  /\ b.pid \in UsedPids
                  /\ b.start_time = Max(clock, p.arrival_time)
                  /\ BlockLen(b) = p.burst_time
                  /\ p.start_time = b.start_time
                  /\ p.finish_time = b.end_time
                  /\ p.waiting_time = b.start_time - p.arrival_time
        /\ \A i, j \in 1..Len(gantt_chart) :
              i < j => KeyLess(<<ProcOf(gantt_chart[i].pid).arrival_time, gantt_chart[i].pid>>,
                               <<ProcOf(gantt_chart[j].pid).arrival_time, gantt_chart[j].pid>>)

\* fcfs on (P1,0,5), (P2,1,3), (P3,2,8)
C12_Example ==
    LET r == FcfsRun(ExampleThree)
    IN  /\ ChartOf(r) = << <<1, 0, 5>>, <<2, 5, 8>>, <<3, 8, 16>> >>
        /\ WaitingOf(r) = <<0, 4, 6>>
        /\ get_metrics(r.procs, r.time).avg_waiting_time = 333

\* C12: FCFS runs the processes in ascending (arrival_time, pid) order, each to
\* completion in one block, idling only when the next arrival is later than
\* the clock; on (P1,0,5), (P2,1,3), (P3,2,8) it yields the blocks (P1,0,5),
\* (P2,5,8), (P3,8,16) with waiting times 0, 4, 6 and average 3.33.
C12_Fcfs == C12_FcfsOrder /\ C12_Example

\* fcfs has run three processes, two of them arriving together with the later
\* added one holding the smaller pid, and the CPU has idled
C12_Witness ==
    /\ sch_last = "fcfs"
    /\ Len(gantt_chart) = 3
    /\ \E i \in 2..3 : gantt_chart[i].start_time > gantt_chart[i - 1].end_time
    /\ \E i, j \in 1..3 : /\ i < j
                          /\ sch_processes[i].arrival_time = sch_processes[j].arrival_time
                          /\ sch_processes[i].pid > sch_processes[j].pid

\* after round_robin(q): every block is as long as min(q, what its process
\* has left when dispatched), so none is longer than q and a shorter one ends
\* its process
C13_Slices ==
    sch_last = "rr" =>
        \A i \in 1..Len(gantt_chart) :
            LET b == gantt_chart[i]
                left == ProcOf(b.pid).burst_time - ExecutedBefore(i, b.pid)
            IN  /\ BlockLen(b) = Min(time_slice, left)
                /\ BlockLen(b) <= time_slice
                /\ BlockLen(b) < time_slice => BlockLen(b) = left

\* round_robin(2) on (P1,0,5), (P2,1,3)
C13_Example ==
    ChartOf(RoundRobinRun(ExampleTwo, 2))
        = << <<1, 0, 2>>, <<2, 2, 4>>, <<1, 4, 6>>, <<2, 6, 7>>, <<1, 7, 8>> >>

\* C13: in round robin with quantum q each block has length min(q, remaining
\* time of its process at dispatch); on (P1,0,5), (P2,1,3) with q = 2 the
\* chart is P1 0-2, P2 2-4, P1 4-6, P2 6-7, P1 7-8.
C13_RoundRobin == C13_Slices /\ C13_Example

\* round_robin(2) has given one process a full slice and then a final short one
C13_Witness ==
    /\ sch_last = "rr"
    /\ time_slice = 2
    /\ \E i, j \in 1..Len(gantt_chart) :
          /\ i < j
          /\ gantt_chart[i].pid = gantt_chart[j].pid
          /\ BlockLen(gantt_chart[i]) = 2
          /\ BlockLen(gantt_chart[j]) = 1

\* the processes that have arrived by time t and are not complete after the
\* first i blocks of the chart
Pending(i, t) ==
    {k \in 1..Len(sch_processes) :
        /\ sch_processes[k].arrival_time <= t
        /\ ExecutedBefore(i + 1, sch_processes[k].pid) < sch_processes[k].burst_time}

FreshList ==
    [i \in 1..Len(sch_processes) |->
        ScheduleProcess(sch_processes[i].pid, sch_processes[i].arrival_time,
                        sch_processes[i].burst_time, sch_processes[i].priority)]

RunOnFresh ==
    CASE sch_last = "fcfs" -> FcfsRun(FreshList)
      [] sch_last = "rr" -> RoundRobinRun(FreshList, time_slice)
      [] sch_last = "sjf" -> SjfNonPreemptiveRun(FreshList)
      [] sch_last = "srtf" -> SjfPreemptiveRun(FreshList)
      [] sch_last = "priority" -> PriorityRun(FreshList, FALSE)

\* C15: whatever ran on the Scheduler before, a scheduling call leaves and
\* returns the chart, the clock and the per-process values that the same call
\* yields on a fresh Scheduler holding the same process list.
C15_Deterministic ==
    sch_last # "none" =>
        /\ gantt_chart = RunOnFresh.gantt
        /\ sch_processes = RunOnFresh.procs
        /\ sch_ret = RunOnFresh.ret
        /\ current_time = RunOnFresh.time


\* a preemptive SJF run on a Scheduler whose time_slice shows that
\* round_robin(1) was called on it before: one process runs in two blocks and
\* another has waited
C15_Witness ==
    /\ time_slice = 1
    /\ sch_last = "srtf"
    /\ \E i, j \in 1..Len(gantt_chart) : i < j /\ gantt_chart[i].pid = gantt_chart[j].pid
    /\ \E k \in 1..Len(sch_processes) : sch_processes[k].waiting_time > 0


\* ---- MemoryAllocator
\* C16: the block list partitions [0, total_size): the first block starts at
\* 0, every block starts where the previous one ends, the last ends at
\* total_size, starts ascend, and no two adjacent blocks are both free.
C16_Partition ==
    /\ Len(blocks) >= 1
    /\ blocks[1].start = 0
    /\ blocks[Len(blocks)].start + blocks[Len(blocks)].size = TotalSize
    /\ \A i \in 2..Len(blocks) :
          /\ blocks[i].start = blocks[i - 1].start + blocks[i - 1].size
          /\ blocks[i - 1].start < blocks[i].start
          /\ ~(blocks[i - 1].is_free /\ blocks[i].is_free)

\* a free block lies between two allocated ones after an allocation has
\* failed and a deallocate has succeeded
C16_Witness ==
    /\ \E i \in 2..(Len(blocks) - 1) :
          blocks[i].is_free /\ ~blocks[i - 1].is_free /\ ~blocks[i + 1].is_free
    /\ \E k \in 1..Len(allocation_history) : allocation_history[k] = <<"free", "A", TRUE>>
    /\ \E k \in 1..Len(allocation_history) :
          allocation_history[k][1] = "alloc" /\ ~allocation_history[k][3]

\* the names that allocate has given a block since construction or reset
AllocatedNames ==
    {allocation_history[k][2] : k \in {j \in 1..Len(allocation_history) :
        allocation_history[j][1] = "alloc" /\ allocation_history[j][3]}}

\* the calls so far: allocations, then a successful deallocate for every
\* allocated name
AllDeallocated ==
    \E m \in 0..Len(allocation_history) :
        /\ \A k \in 1..m : allocation_history[k][1] = "alloc"
        /\ \A k \in (m + 1)..Len(allocation_history) : allocation_history[k][1] = "free"
        /\ \A n \in AllocatedNames :
              \E k \in (m + 1)..Len(allocation_history) : allocation_history[k][2] = n

\* C17: after allocations, successful or failed, and then a deallocate for
\* every name that was allocated, the block list is the single free block
\* [0, total_size) again.
C17_RoundTrip ==
    AllDeallocated => blocks = <<MemoryBlock(0, TotalSize, TRUE, "")>>

\* two names were given blocks, a third allocation failed, and both names
\* have been deallocated
C17_Witness ==
    /\ AllDeallocated
    /\ AllocatedNames = {"A", "B"}
    /\ \E k \in 1..Len(allocation_history) :
          allocation_history[k][1] = "alloc" /\ ~allocation_history[k][3]
    /\ mem_ret = "True"


\* ---- PageReplacer
\* no page is resident in two frames, and there are frame_count frames
C18_Frames ==
    /\ Len(frames) = frame_count
    /\ \A i, j \in 1..Len(frames) :
          (i # j /\ ~frames[i].is_free /\ ~frames[j].is_free)
              => frames[i].page_id # frames[j].page_id

\* C18: whatever algorithm each access_page call uses, no page id is resident
\* in more than one frame and the number of frames stays frame_count.
C18_OnePagePerFrame ==
    /\ []C18_Frames
    /\ [][frame_count' = frame_count /\ Len(frames') = Len(frames)]_vars

\* pages were loaded under FIFO and under LRU, both frames are full and the
\* last access replaced a page
C18_Witness ==
    /\ frame_count = 2
    /\ \A i \in 1..Len(frames) : ~frames[i].is_free
    /\ fifo_queue # <<>>
    /\ lru_order # <<>>
    /\ pr_call.op = "access_page"
    /\ pr_ret.replaced # -1

\* the textbook reference string
BeladySequence == <<7, 0, 1, 2, 0, 3, 0, 4, 2, 3, 0, 3, 2, 1, 2, 0, 1, 7, 0, 1>>

\* run_sequence with FIFO on the reference string and 3 frames
C19_Example ==
    LET r == RunSequence(3, BeladySequence, "FIFO")
    IN  /\ r.raised = ""
        /\ Len(r.steps) = 20
        /\ r.st.page_faults = 15
        /\ r.st.page_hits = 5
        /\ r.steps[20].page_faults = 15
        /\ r.steps[20].page_hits = 5

\* the step at which page was last loaded before step k of the returned list
LoadedAt(page, k) ==
    LET loads == {j \in 1..(k - 1) : pr_steps[j].page = page /\ ~pr_steps[j].hit}
    IN  CHOOSE j \in loads : \A j2 \in loads : j2 <= j

\* after run_sequence with FIFO: a step that replaced a page replaced, in its
\* frame, the resident page loaded earliest, hits not counting as loads; a
\* hit left the frames as they were
C19_EarliestLoaded ==
    (pr_call.op = "run_sequence" /\ pr_call.alg = "FIFO") =>
        \A k \in 2..Len(pr_steps) :
            LET before == pr_steps[k - 1].frame_state
                after == pr_steps[k].frame_state
            IN  /\ pr_steps[k].hit => after = before
                /\ pr_steps[k].replaced # -1 =>
                      \E i \in 1..Len(before) :
                          /\ before[i] = pr_steps[k].replaced
                          /\ \A j \in 1..Len(before) :
                                LoadedAt(before[i], k) <= LoadedAt(before[j], k)
                          /\ after = [before EXCEPT ![i] = pr_steps[k].page]

\* C19: FIFO on 7,0,1,2,0,3,0,4,2,3,0,3,2,1,2,0,1,7,0,1 with 3 frames reports
\* 15 page faults and 5 hits; FIFO evicts the resident page that was loaded
\* earliest, and a hit does not change that order.
C19_Fifo == C19_Example /\ C19_EarliestLoaded

\* a FIFO run on two frames in which a page was hit and then evicted while a
\* page loaded after it stayed
C19_Witness ==
    /\ pr_call.op = "run_sequence"
    /\ pr_call.alg = "FIFO"
    /\ frame_count = 2
    /\ \E k \in 1..Len(pr_steps) :
          /\ pr_steps[k].hit
          /\ k < Len(pr_steps)
          /\ pr_steps[k + 1].replaced = pr_steps[k].page

\* C20: run_sequence on an empty page sequence is rejected: it raises or
\* returns a failure, not the list of steps of an ordinary run.
C20_Original ==
    (pr_call.op = "run_sequence" /\ pr_call.arg = <<>>) => pr_ret.raised # ""


\* ---- Semaphore: cancellation and the waiting queue
\* C21: a P() call that blocked returns cancelled if and only if
\* force_wakeup_all() was called while it was waiting; a waiter woken by V()
\* returns granted, and no call is cancelled without a force-release during
\* its wait.
C21_Original ==
    \A t \in SemThreads :
        /\ sem_ret[t] = "cancelled" => t \in sem_forced
        /\ sem_ret[t] = "granted" => t \notin sem_forced

\* C22: whenever the semaphore's lock is free, also after a V() has notified
\* a waiter that has not resumed yet, len(waiting_queue) = max(0, -counter).
C22_Original == Len(sem.waiting_queue) = Max(0, - sem.value)


\* ---- Scheduler: dispatch order, selection keys, colours
\* the position of the next block of the same pid after block i, 0 if none
NextBlockOf(i) ==
    LET later == {j \in (i + 1)..Len(gantt_chart) : gantt_chart[j].pid = gantt_chart[i].pid}
    IN  IF later = {} THEN 0 ELSE CHOOSE j \in later : \A j2 \in later : j <= j2

\* C23: in round robin, when a slice ends and its process is not finished,
\* every other incomplete process that has arrived by the end of the slice
\* (arrival exactly at the boundary included) runs exactly once before the
\* preempted process runs again, and no process that arrives later does: the
\* arrivals are queued before the preempted process, which goes to the tail.
C23_RequeueAfterArrivals ==
    sch_last = "rr" =>
        \A i \in 1..Len(gantt_chart) :
            LET b == gantt_chart[i]
                j == NextBlockOf(i)
                waiting == {sch_processes[k].pid : k \in Pending(i, b.end_time)} \ {b.pid}
            IN  j # 0 =>
                    /\ {gantt_chart[k].pid : k \in (i + 1)..(j - 1)} = waiting
                    /\ j - i - 1 = Cardinality(waiting)

\* a process arrives exactly when a slice of an unfinished process ends, and
\* runs next
C23_Witness ==
    /\ sch_last = "rr"
    /\ \E i \in 1..(Len(gantt_chart) - 1) :
          /\ NextBlockOf(i) > i + 1
          /\ ProcOf(gantt_chart[i + 1].pid).arrival_time = gantt_chart[i].end_time
          /\ gantt_chart[i + 1].start_time = gantt_chart[i].end_time

\* the key of the non-preemptive selectors
SelectorKey(p) ==
    IF sch_last = "sjf" THEN <<p.burst_time, p.arrival_time>>
    ELSE <<p.priority, p.arrival_time>>

\* C24: sjf(preemptive=False) and priority_scheduling give each process one
\* block of its burst_time; each block starts when the CPU is free (at once if
\* an incomplete process has arrived, else at the next arrival) and belongs to
\* an arrived, incomplete process of minimum (burst_time, arrival_time),
\* respectively (priority, arrival_time); priority_scheduling gives the same
\* result for both values of its preemptive flag.
C24_NonPreemptive ==
    sch_last \in {"sjf", "priority"} =>
        /\ Len(gantt_chart) = Len(sch_processes)
        /\ \A i, j \in 1..Len(gantt_chart) : i # j => gantt_chart[i].pid # gantt_chart[j].pid
        /\ \A i \in 1..Len(gantt_chart) :
              LET b == gantt_chart[i]
                  p == ProcOf(b.pid)
                  clock == IF i = 1 THEN 0 ELSE gantt_chart[i - 1].end_time
                  available == Pending(i - 1, b.start_time)
              IN  /\ BlockLen(b) = p.burst_time
                  /\ p.arrival_time <= b.start_time
                  /\ Pending(i - 1, clock) # {} => b.start_time = clock
                  /\ \A k \in available :
                        ~KeyLess(SelectorKey(sch_processes[k]), SelectorKey(p))
        /\ sch_last = "priority" =>
              PriorityRun(FreshList, TRUE) = PriorityRun(FreshList, FALSE)

\* a shorter job that arrived later ran before a longer one that was waiting
C24_Witness ==
    /\ sch_last = "sjf"
    /\ \E i, j \in 1..Len(gantt_chart) :
          /\ i < j
          /\ ProcOf(gantt_chart[j].pid).arrival_time < ProcOf(gantt_chart[i].pid).arrival_time
          /\ ProcOf(gantt_chart[j].pid).arrival_time <= gantt_chart[i].start_time
          /\ ProcOf(gantt_chart[i].pid).burst_time < ProcOf(gantt_chart[j].pid).burst_time

\* the time the chart gives to pid before time t
ExecutedUntil(pid, t) ==
    SumOver([i \in 1..Len(gantt_chart) |->
                IF gantt_chart[i].pid = pid
                THEN Max(0, Min(gantt_chart[i].end_time, t) - gantt_chart[i].start_time)
                ELSE 0],
            1..Len(gantt_chart))

\* the pids of the blocks covering the time unit [t, t+1)
RunningAt(t) ==
    {gantt_chart[i].pid : i \in {k \in 1..Len(gantt_chart) :
        gantt_chart[k].start_time <= t /\ t < gantt_chart[k].end_time}}

\* (remaining_time, arrival_time) of a process at time t
RemainingKey(p, t) == <<p.burst_time - ExecutedUntil(p.pid, t), p.arrival_time>>

AllCharts ==
    {FcfsRun(FreshList).gantt, RoundRobinRun(FreshList, time_slice).gantt,
     SjfNonPreemptiveRun(FreshList).gantt, SjfPreemptiveRun(FreshList).gantt,
     PriorityRun(FreshList, FALSE).gantt}

\* C26: every block of a pid carries the same color index, in this run and in
\* the run of every other algorithm on the same process list.
C26_Original ==
    sch_last # "none" =>
        \A chart \in AllCharts :
            \A i \in 1..Len(gantt_chart), j \in 1..Len(chart) :
                gantt_chart[i].pid = chart[j].pid
                    => gantt_chart[i].color_index = chart[j].color_index


\* ---- MemoryAllocator: strategies and deallocate
\* the block list after block i of bl is given to name with the request size
SplitAt(bl, i, size, name) ==
    LET rest == bl[i].size - size
    IN  [k \in 1..(Len(bl) + (IF rest > 0 THEN 1 ELSE 0)) |->
            IF k < i THEN bl[k]
            ELSE IF k = i
                 THEN [start |-> bl[i].start, size |-> size, is_free |-> FALSE,
                       process_name |-> name]
            ELSE IF rest > 0 /\ k = i + 1
                 THEN [start |-> bl[i].start + size, size |-> rest, is_free |-> TRUE,
                       process_name |-> ""]
            ELSE bl[k - (IF rest > 0 THEN 1 ELSE 0)]]

\* block i is the one the strategy picks among the fitting free blocks F
Picks(algorithm, i, F) ==
    CASE algorithm = "FIRST_FIT" -> \A j \in F : i <= j
      [] algorithm = "BEST_FIT" ->
            \A j \in F : /\ blocks[i].size <= blocks[j].size
                         /\ blocks[i].size = blocks[j].size => i <= j
      [] algorithm = "WORST_FIT" ->
            \A j \in {k \in 1..Len(blocks) : blocks[k].is_free} :
                         /\ blocks[i].size >= blocks[j].size
                         /\ blocks[i].size = blocks[j].size => i <= j

C27_Step ==
    \A name \in AllocNames, size \in 1..MaxRequest,
       algorithm \in {"FIRST_FIT", "BEST_FIT", "WORST_FIT"} :
        allocate(name, size, algorithm) =>
            LET F == {i \in 1..Len(blocks) : blocks[i].is_free /\ blocks[i].size >= size}
            IN  IF F = {}
                THEN blocks' = blocks /\ mem_ret' = "False"
                ELSE /\ mem_ret' = "True"
                     /\ \E i \in F : /\ Picks(algorithm, i, F)
                                     /\ blocks' = SplitAt(blocks, i, size, name)

\* C27: first-fit takes the lowest-indexed free block of size >= s, best-fit
\* the smallest such block (the first on ties), worst-fit the largest free
\* block (the first on ties) if it is >= s; the block becomes an allocated
\* block of size s at the same start under the process name, followed by a
\* free block with the remainder when there is one.
C27_Strategies == [][C27_Step]_vars

\* the last call was a successful allocation that passed over a free block
\* lying before the chosen one and larger than it: best-fit at work (next-fit
\* has not moved its pointer, first-fit and worst-fit would take the other)
C27_Witness ==
    /\ mem_ret = "True"
    /\ next_fit_pointer = 0
    /\ allocation_history # <<>>
    /\ allocation_history[Len(allocation_history)] = <<"alloc", "B", TRUE>>
    /\ Cardinality({i \in 1..Len(blocks) : blocks[i].process_name = "B"}) = 1
    /\ \E i \in 2..Len(blocks) :
          /\ blocks[i].process_name = "B"
          /\ i = Len(blocks) \/ ~blocks[i + 1].is_free
          /\ \E j \in 1..(i - 1) : blocks[j].is_free /\ blocks[j].size > blocks[i].size

\* next_fit_pointer is the position of the block that next-fit allocated last
Designated ==
    /\ next_fit_pointer < Len(blocks)
    /\ blocks[next_fit_pointer + 1].start = next_fit_block

\* C28 (last part): a deallocate that leaves the block allocated last by
\* next-fit in place also leaves the remembered position on that block.
C28_Original ==
    [][\A name \in AllocNames :
          (deallocate(name) /\ next_fit_block # -1 /\ next_fit_block' # -1 /\ Designated)
              => Designated']_vars

C29_Step ==
    \A name \in AllocNames :
        (deallocate(name) /\ \E i \in 1..Len(blocks) :
                                ~blocks[i].is_free /\ blocks[i].process_name = name)
            => /\ mem_ret' = "True"
               /\ \A j \in 1..Len(blocks') :
                     ~(~blocks'[j].is_free /\ blocks'[j].process_name = name)
               /\ \A j \in 2..Len(blocks') : ~(blocks'[j - 1].is_free /\ blocks'[j].is_free)
               /\ \A i \in 1..Len(blocks) :
                     (~blocks[i].is_free /\ blocks[i].process_name # name)
                         => \E j \in 1..Len(blocks') : blocks'[j] = blocks[i]
               /\ \A j \in 1..Len(blocks') :
                     ~blocks'[j].is_free => \E i \in 1..Len(blocks) : blocks[i] = blocks'[j]

\* C29: deallocate(name) frees every block of name, leaves no two adjacent
\* free blocks, and leaves every block of another name with its start, size
\* and owner.
C29_Deallocate == [][C29_Step]_vars

\* A owned two blocks separated by B's; B was freed, then A, and the four
\* free blocks have become one
C29_Witness ==
    /\ Len(allocation_history) = 5
    /\ [k \in 1..5 |-> <<allocation_history[k][1], allocation_history[k][2]>>]
          = << <<"alloc", "A">>, <<"alloc", "B">>, <<"alloc", "A">>,
               <<"free", "B">>, <<"free", "A">> >>
    /\ \A k \in 1..5 : allocation_history[k][3]
    /\ Len(blocks) = 1
    /\ blocks[1].is_free

\* C30: a deallocate for a name that owns no allocated block returns failure
\* and changes neither the block list nor the allocation history.
C30_Original ==
    [][\A name \in AllocNames :
          (deallocate(name) /\ ~\E i \in 1..Len(blocks) :
                                  ~blocks[i].is_free /\ blocks[i].process_name = name)
              => /\ mem_ret' = "False"
                 /\ blocks' = blocks
                 /\ allocation_history' = allocation_history]_vars


\* ---- PageReplacer: LRU, OPT, CLOCK, run_sequence
\* the page ids in the non-free frames
Resident == {frames[i].page_id : i \in {j \in 1..Len(frames) : ~frames[j].is_free}}

NoFreeFrame == \A i \in 1..Len(frames) : ~frames[i].is_free

\* the position in access_history of the last access (load or hit) to page q
LastAccess(q) ==
    LET at == {k \in 1..Len(access_history) : access_history[k][1] = q}
    IN  IF at = {} THEN 0 ELSE CHOOSE k \in at : \A k2 \in at : k2 <= k

C31_Step ==
    \A page \in Pages :
        (access_page(page, "LRU", <<>>) /\ pr_algs \subseteq {"LRU"}) =>
            IF page \in Resident
            THEN /\ pr_ret'.hit
                 /\ frames' = frames
                 /\ lru_order' = Append(SelectSeq(lru_order, LAMBDA q : q # page), page)
            ELSE NoFreeFrame =>
                    \E i \in 1..Len(frames) :
                        /\ \A q \in Resident : LastAccess(frames[i].page_id) <= LastAccess(q)
                        /\ pr_ret'.replaced = frames[i].page_id
                        /\ frames' = [frames EXCEPT ![i].page_id = page]
                        /\ lru_order'[Len(lru_order')] = page

\* C31: when every access since the last reset used LRU, a miss with no free
\* frame evicts the resident page whose last access is the oldest, and a hit
\* moves the page to the most-recent end of lru_order and changes no frame.
C31_Lru == [][C31_Step]_vars

\* an LRU eviction that spared the page loaded first because a hit had
\* refreshed it
C31_Witness ==
    /\ pr_algs = {"LRU"}
    /\ pr_call.op = "access_page"
    /\ pr_ret.replaced # -1
    /\ Len(access_history) >= 4
    /\ \E k \in 2..(Len(access_history) - 1) :
          /\ access_history[k][2]
          /\ access_history[k][1] = access_history[1][1]
          /\ access_history[k][1] # pr_ret.replaced
          /\ access_history[k][1] \in Resident

\* page q occurs in the list, and the position of its first occurrence
OccursIn(q, future) == \E k \in 1..Len(future) : future[k] = q
NextUse(q, future) ==
    CHOOSE k \in 1..Len(future) : future[k] = q /\ \A j \in 1..(k - 1) : future[j] # q

\* position i of the frame contents fs holds the page OPT has to evict
OptVictim(fs, i, future) ==
    IF OccursIn(fs[i], future)
    THEN \A j \in 1..Len(fs) :
            j # i => OccursIn(fs[j], future) /\ NextUse(fs[j], future) < NextUse(fs[i], future)
    ELSE \A j \in 1..(i - 1) : OccursIn(fs[j], future)

C32_Step ==
    \A page \in Pages, future \in PageSeqs(MaxFuture) :
        (access_page(page, "OPT", future) /\ page \notin Resident /\ NoFreeFrame) =>
            \E i \in 1..Len(frames) :
                /\ OptVictim([j \in 1..Len(frames) |-> frames[j].page_id], i, future)
                /\ pr_ret'.replaced = frames[i].page_id
                /\ frames' = [frames EXCEPT ![i].page_id = page]

C32_Run ==
    (pr_call.op = "run_sequence" /\ pr_call.alg = "OPT") =>
        \A k \in 2..Len(pr_steps) :
            pr_steps[k].replaced # -1 =>
                \E i \in 1..frame_count :
                    /\ pr_steps[k - 1].frame_state[i] = pr_steps[k].replaced
                    /\ pr_steps[k].frame_state =
                          [pr_steps[k - 1].frame_state EXCEPT ![i] = pr_steps[k].page]
                    /\ OptVictim(pr_steps[k - 1].frame_state, i,
                                 SubSeq(pr_call.arg, k + 1, Len(pr_call.arg)))

\* C32: an OPT replacement evicts the resident page whose next use in the
\* supplied future list is farthest, a page that is never used again before
\* any page that is (the lowest frame among several such), and run_sequence
\* supplies the references after the current one as the future list.
C32_Opt == [][C32_Step]_vars /\ []C32_Run

\* run_sequence under OPT evicted the page of the second frame, which is never
\* referenced again, and kept the page of the first frame, which is
C32_Witness ==
    /\ pr_call.op = "run_sequence"
    /\ pr_call.alg = "OPT"
    /\ frame_count = 2
    /\ \E k \in 2..Len(pr_steps) :
          /\ pr_steps[k].replaced # -1
          /\ pr_steps[k - 1].frame_state[2] = pr_steps[k].replaced
          /\ OccursIn(pr_steps[k - 1].frame_state[1],
                      SubSeq(pr_call.arg, k + 1, Len(pr_call.arg)))

\* the frame (from 1) the clock hand is on after o advances
HandAt(o) == ((clock_pointer + o) % frame_count) + 1

\* the number of frames the sweep skips: up to the first frame whose page has
\* bit 0, all frame_count of them when every bit is 1
Skipped ==
    LET zero == {o \in 0..(frame_count - 1) :
                    BitsGet(reference_bits, frames[HandAt(o)].page_id, 0) = 0}
    IN  IF zero = {} THEN frame_count ELSE CHOOSE o \in zero : \A o2 \in zero : o <= o2

C33_Step ==
    \A page \in Pages :
        (access_page(page, "CLOCK", <<>>) /\ page \notin Resident /\ NoFreeFrame) =>
            LET victim == frames[HandAt(Skipped)].page_id
            IN  /\ Skipped + 1 <= frame_count + 1
                /\ pr_ret'.replaced = victim
                /\ frames' = [frames EXCEPT ![HandAt(Skipped)].page_id = page]
                /\ clock_pointer' = HandAt(Skipped) % frame_count
                /\ BitsGet(reference_bits', page, 0) = 1
                /\ \A x \in reference_bits' : x[1] # victim
                /\ \A o \in 0..(frame_count - 1) :
                      LET q == frames[HandAt(o)].page_id
                      IN  q # victim =>
                             BitsGet(reference_bits', q, 0) =
                                IF o < Skipped THEN 0 ELSE BitsGet(reference_bits, q, 0)

\* C33: a CLOCK replacement clears the bit of every page it passes, evicts
\* the first page met with bit 0 after at most frame_count + 1 inspections,
\* stores the new page there with bit 1 and leaves the pointer on the next slot.
C33_Clock == [][C33_Step]_vars

\* with two frames, the third miss of a run without hits swept past a page
\* whose bit was 1 and cleared it
C33_Witness ==
    /\ frame_count = 2
    /\ pr_call.op = "access_page"
    /\ pr_call.alg = "CLOCK"
    /\ pr_ret.replaced # -1
    /\ page_faults = 3
    /\ page_hits = 0
    /\ reference_bits = {<<pr_call.arg[1], 1>>,
                         <<frames[clock_pointer + 1].page_id, 0>>}

\* the frame contents before step k of the returned list
StateBefore(k) ==
    IF k = 1 THEN [i \in 1..frame_count |-> -1] ELSE pr_steps[k - 1].frame_state

FaultsBefore(k) == IF k = 1 THEN 0 ELSE pr_steps[k - 1].page_faults

\* C34: what run_sequence returns and leaves behind is what it returns and
\* leaves on a fresh PageReplacer of the same frame_count; it returns one step
\* per reference, in order, with the hit flag, the evicted page or -1, the
\* frame contents after the access and counts that add up to the number of
\* references processed.
C34_RunSequence ==
    pr_call.op = "run_sequence" =>
        LET fresh == RunSequence(frame_count, pr_call.arg, pr_call.alg)
            InFrames(q, fs) == \E i \in 1..Len(fs) : fs[i] = q
        IN  /\ pr_steps = fresh.steps
            /\ Replacer = fresh.st
            /\ pr_ret.raised = ""
            /\ Len(pr_steps) = Len(pr_call.arg)
            /\ \A k \in 1..Len(pr_steps) :
                  LET step == pr_steps[k]
                  IN  /\ step.page = pr_call.arg[k]
                      /\ step.hit = InFrames(step.page, StateBefore(k))
                      /\ step.hit => step.replaced = -1 /\ step.frame_state = StateBefore(k)
                      /\ step.replaced # -1 =>
                            /\ InFrames(step.replaced, StateBefore(k))
                            /\ ~InFrames(step.replaced, step.frame_state)
                      /\ Len(step.frame_state) = frame_count
                      /\ InFrames(step.page, step.frame_state)
                      /\ step.page_faults = FaultsBefore(k) + (IF step.hit THEN 0 ELSE 1)
                      /\ step.page_faults + step.page_hits = k

\* run_sequence was called on a replacer that had served accesses before, and
\* the run replaced a page
C34_Witness ==
    /\ pr_call.op = "run_sequence"
    /\ pr_call.prior > 0
    /\ \E k \in 1..Len(pr_steps) : pr_steps[k].replaced # -1

\* the page faults run_sequence reports on a replacer of n frames
FaultsOf(n, page_sequence, algorithm) ==
    RunSequence(n, page_sequence, algorithm).st.page_faults

\* C39: on every page sequence and frame count, run_sequence reports no more
\* page faults with OPT than with FIFO, LRU or CLOCK.
C39_OptLeast ==
    pr_call.op = "run_sequence" =>
        \A algorithm \in PageReplacementAlgorithm :
            FaultsOf(frame_count, pr_call.arg, "OPT")
                <= FaultsOf(frame_count, pr_call.arg, algorithm)

\* a sequence on which OPT has fewer faults than FIFO and than LRU
C39_Witness ==
    /\ pr_call.op = "run_sequence"
    /\ FaultsOf(frame_count, pr_call.arg, "OPT") < FaultsOf(frame_count, pr_call.arg, "FIFO")
    /\ FaultsOf(frame_count, pr_call.arg, "OPT") < FaultsOf(frame_count, pr_call.arg, "LRU")


\* ---- Scheduler: accounting of a run
\* the positions of the blocks of pid in the chart
BlocksOf(pid) == {i \in 1..Len(gantt_chart) : gantt_chart[i].pid = pid}

C37_Original ==
    /\ sch_last # "hung"
    /\ sch_last # "none" =>
          \A k \in 1..Len(sch_processes) :
              /\ sch_processes[k].remaining_time = 0
              /\ sch_processes[k].finish_time
                    >= sch_processes[k].arrival_time + sch_processes[k].burst_time


\* ---- DiningPhilosophers: forks and the EATING state
\* philosopher i is between the return of a granted P() on fork f and its V()
HoldsLeft(i) ==
    ph_pc[i] \in {"gotL", "delayL", "pR", "waitR", "gotR", "eat", "vR", "xR", "vL", "xL"}
HoldsRight(i) == ph_pc[i] \in {"gotR", "eat", "vR", "xR"}
Holders(f) ==
    {i \in Phil : \/ left_fork[i] = f /\ HoldsLeft(i)
                  \/ right_fork[i] = f /\ HoldsRight(i)}
RingNeighbours(i) == {(i + 1) % NumPhil, (i + NumPhil - 1) % NumPhil} \ {i}

\* every fork has at most one holder while the simulation runs
OneHolderPerFork == dp_running => \A f \in Forks : Cardinality(Holders(f)) <= 1

\* C36: while the simulation runs, no fork has two holders, and a philosopher
\* whose state is EATING has no ring neighbour in state EATING at the same time.
C36_Original ==
    dp_running =>
        /\ \A f \in Forks : Cardinality(Holders(f)) <= 1
        /\ \A i \in philosophers :
              ph_state[i] = "EATING" =>
                  \A j \in RingNeighbours(i) : ph_state[j] # "EATING"


\* ---- SharedBuffer: wakeups
\* C35: under fair scheduling no thread stays blocked in consume while the
\* buffer stays non-empty, and none stays blocked in produce while the buffer
\* stays non-full.
C35_Original ==
    \A t \in BufThreads :
        /\ (buf_pc[t] = "cwait" /\ ~ BufferEmpty(buffer))
              ~> (buf_pc[t] # "cwait" \/ BufferEmpty(buffer))
        /\ (buf_pc[t] = "pwait" /\ ~ BufferFull(buffer))
              ~> (buf_pc[t] # "pwait" \/ BufferFull(buffer))

\* ---- IPCManager: worker threads are started once
\* C40: no command sequence makes IPCManager.start() call Thread.start() on a
\* worker that was started before, so start() never raises.
C40_Original == ~ start_raised

=============================================================================
